---- MODULE Spec2Model ----
(***************************************************************************)
(* Verification model of the ZASbot request / retry / background-task     *)
(* layer (bot.py, ai_utils.py, ai_models.py).                              *)
(*                                                                         *)
(* Part 1: the retry helpers retry_async and retry_on_network_errors.      *)
(* Part 2: AIManager._make_request and the public AI operations.           *)
(* Part 3: the generate_strategy flow (wrapper, background generation     *)
(*         task, indicator loop, cancellation).                            *)
(* Part 4: the text functions of AIManager (public operations on the       *)
(*         response, slogan and step extraction).                          *)
(***************************************************************************)
EXTENDS Integers, Sequences, FiniteSets, TLC

(***************************************************************************)
(* Bounds of the model.                                                    *)
(***************************************************************************)
\* largest max_retries argument explored for the retry helpers
MaxRetriesArg == 3
\* largest retry_delay argument (seconds) explored for the retry helpers
MaxDelayArg == 2
\* most chunks one streaming call delivers
MaxChunks == 2
\* longest list of names passed to set_providers
MaxNames == 2

(***************************************************************************)
(* Program constants.                                                      *)
(***************************************************************************)
\* default max_retries of retry_on_network_errors / retry_async
DefaultMaxRetries == 3
\* default retry_delay (seconds) of retry_on_network_errors / retry_async
DefaultRetryDelay == 2

(***************************************************************************)
(* Exceptions.  An exception is a record of its Python type, the words of  *)
(* its message (str(e)) and, for the aggregate error retry_async builds,   *)
(* the attempt count its message carries (0: the message names none).      *)
(***************************************************************************)
NoExc == [type |-> "None", msg |-> <<>>, attempts |-> 0]

\* outcome record of an invocation that returned normally
Returned == [type |-> "Return", msg |-> <<>>, attempts |-> 0]

\* asyncio.TimeoutError raised by asyncio.wait_for / asyncio.timeout: str(e) = ""
TimeoutExc == [type |-> "TimeoutError", msg |-> <<>>, attempts |-> 0]

\* bot.py:95  asyncio.TimeoutError(<Russian text, "operation exceeded the timeout">);
\* its words are transliterated, none of them contains an English keyword
WrapperTimeoutExc ==
    [type |-> "TimeoutError", msg |-> <<"Operaciya", "prevysila", "taimaut">>, attempts |-> 0]

\* the messages of the exceptions the wrapped operations raise in the model
Messages ==
    { <<"Connection", "refused">>,
      <<"Read", "TIMEOUT">>,
      <<"network", "unreachable">>,
      <<"Cannot", "reconnect">>,
      <<"reconnection", "failed">>,
      <<"invalid", "token">>,
      <<>> }

FuncExceptions ==
    {TimeoutExc} \cup {[type |-> "Exception", msg |-> m, attempts |-> 0] : m \in Messages}

\* str.lower() on one word of a message
Lower(word) ==
    CASE word = "Connection" -> "connection"
      [] word = "Read"       -> "read"
      [] word = "TIMEOUT"    -> "timeout"
      [] word = "Cannot"     -> "cannot"
      [] word = "DDG"        -> "ddg"
      [] word = "Blackbox"   -> "blackbox"
      [] OTHER               -> word

\* `key in word` for the three keywords the retry helpers look for
WordContains(word, key) ==
    \/ word = key
    \/ (word = "reconnection" /\ key = "connection")

\* `key in str(e).lower()`
MsgContains(msg, key) == \E i \in DOMAIN msg : WordContains(Lower(msg[i]), key)

\* mutant: every exception counts as network-class
AlwaysNetworkError(e) == TRUE

\* bot.py:60 / bot.py:98
\*   "connection" in str(e).lower() or "timeout" in ... or "network" in ...
IsNetworkError(e) ==
    \/ MsgContains(e.msg, "connection")
    \/ MsgContains(e.msg, "timeout")
    \/ MsgContains(e.msg, "network")

\* `except asyncio.TimeoutError` (bot.py:54, bot.py:93)
IsTimeoutError(e) == e.type = "TimeoutError"

(***************************************************************************)
(* Delays are rationals num/den (2.0 * 1.5^k is exact in binary floating   *)
(* point for every k the model reaches).                                   *)
(***************************************************************************)
Rat(n, d) == [num |-> n, den |-> d]
RatEq(a, b) == a.num * b.den = b.num * a.den
RatLess(a, b) == a.num * b.den < b.num * a.den

RECURSIVE Pow(_, _)
Pow(b, k) == IF k = 0 THEN 1 ELSE b * Pow(b, k - 1)

\* mutant: the delay is doubled instead of multiplied by 1.5
DoubleDelay(d) == Rat(d.num * 2, d.den)

\* bot.py:70 / bot.py:108   current_delay *= 1.5
NextDelay(d) == Rat(d.num * 3, d.den * 2)

\* mutant: one iteration too many
RangeHasNextOffByOne(a, m) == a + 1 <= m

\* bot.py:48 / bot.py:88   for attempt in range(max_retries): is there an
\* iteration after iteration `a`?
RangeHasNext(a, m) == a + 1 < m

\* mutant: sleeps after the final attempt too
SleepGuardAlways(a, m) == a < m

\* bot.py:68 / bot.py:106   if attempt < max_retries - 1:
SleepGuard(a, m) == a < m - 1

(***************************************************************************)
(* State.                                                                  *)
(***************************************************************************)
VARIABLES
    \* ---- retry helper (bot.py:40-116) ----
    helper,          \* "retry_async" | "retry_on_network_errors"
    max_retries,     \* argument max_retries
    retry_delay,     \* argument retry_delay (seconds)
    wpc,             \* position of the helper: "idle" | "call" | "sleep" |
                     \*   "returned" | "raised"
    attempt,         \* loop variable attempt
    current_delay,   \* local current_delay
    last_exception,  \* local last_exception
    sleeps,          \* arguments of the asyncio.sleep calls made, in order
    calls,           \* invocations of the wrapped function so far
    last_outcome,    \* outcome of the latest invocation: NoExc (none yet) |
                     \*   Returned | the exception it raised
    raised           \* exception the helper raised to its caller, or NoExc

retryVars == <<helper, max_retries, retry_delay, wpc, attempt, current_delay,
               last_exception, sleeps, calls, last_outcome, raised>>

VARIABLES
    \* ---- AIModelManager (ai_models.py:11-25) ----
    current_model,      \* self.current_model
    current_providers,  \* self.current_providers, a list of providers
    cfg_ret,            \* return value of the latest configuration call
    cfg_call,           \* that call: its operation, its argument and the
                        \*   value it found (see NoCall)
    selected_providers, \* "selected_providers" of the user's dialogue data
                        \*   (bot.py:1954); <<>> when absent
    \* ---- one AIManager._make_request call (ai_utils.py:13-78) ----
    rq_pc,              \* "idle" | "stream" | "fallback" | "done"
    rq_op,              \* public operation the request belongs to
    rq_model,           \* local `model`
    rq_providers,       \* local `providers`
    rq_calls,           \* g4f.ChatCompletion.create_async calls made, in order
    rq_stream,          \* what the streaming call delivered
    rq_buffered,        \* what the buffered call delivered
    rq_result           \* return value of _make_request

cfgVars == <<current_model, current_providers, cfg_ret, cfg_call, selected_providers>>
reqVars == <<rq_pc, rq_op, rq_model, rq_providers, rq_calls, rq_stream,
             rq_buffered, rq_result>>

VARIABLES
    \* ---- one generation flow: generate_strategy (bot.py:873-975) or
    \*      generate_slogans_start (bot.py:2035-2105) ----
    flow,             \* "strategy" | "slogans"
    g_pc,             \* position of the flow's coroutine (see FlowPoints)
    g_pending,        \* a CancelledError waits for the coroutine at
                      \*   `await generation_task`
    g_result,         \* local strategy_result / slogans
    expired,          \* asyncio.timeout of this attempt has fired
    ext_cancelled,    \* the flow's task was cancelled from outside
    midflight,        \* this attempt was cancelled while generation ran
    \* ---- generation task (bot.py:977-1037, 2107-2128) ----
    t_pc,             \* "none" | "created" | "analyze" | "generate" |
                      \*   "done" | "cancelled"
    t_cancel_req,     \* cancel() was called on the task
    t_analysis,       \* local situation_analysis
    t_result,         \* value the task returned
    \* ---- indicator loop (bot.py:1039-1051) ----
    u_pc,             \* "none" | "created" | "edit" | "sleep" |
                      \*   "finished" | "cancelled"
    u_cancel_req,     \* cancel() was called on update_task
    u_dots,           \* local dots
    \* ---- what the user and the dialogue storage see ----
    stored_strategy,  \* dialogue data holds a 'strategy' entry
    shown,            \* kinds of messages sent or edited so far
    att_stored,       \* this attempt stored a strategy
    att_delivered     \* this attempt sent the strategy / slogans message

bodyVars == <<g_pc, g_pending, g_result>>
cancelVars == <<expired, ext_cancelled, midflight>>
taskVars == <<t_pc, t_cancel_req, t_analysis, t_result>>
updVars == <<u_pc, u_cancel_req, u_dots>>
uiVars == <<stored_strategy, shown, att_stored, att_delivered>>
genVars == <<flow, bodyVars, cancelVars, taskVars, updVars, uiVars>>

VARIABLES
    \* ---- one call of a text function of AIManager (ai_utils.py) ----
    fn_name,          \* the function called, "none" before the first call
    fn_input,         \* what it was called with
    fn_output         \* what it returned

fnVars == <<fn_name, fn_input, fn_output>>

VARIABLES
    \* ---- ProxyManager (proxy_manager.py:10-112) ----
    proxy_list,       \* self.proxy_list, the candidate pool (its order is
                      \*   shuffled before every use)
    current_proxy,    \* self.current_proxy, "None" when empty
    px_pc,            \* "idle" | "recheck" | "round" | "returned" | "raised"
    px_entry,         \* the method called: "ensure_working_proxy" |
                      \*   "get_working_g4f_proxy"
    px_attempt,       \* probing rounds of this call that are over
    px_checked,       \* proxies that passed test_g4f_with_proxy in this call
    px_before,        \* self.current_proxy when the call began
    px_ret            \* return value of the call

pxVars == <<proxy_list, current_proxy, px_pc, px_entry, px_attempt, px_checked,
            px_before, px_ret>>

VARIABLES
    \* ---- WebAnalyzer.analyze_channel (services.py:133-195) ----
    ch_pc,            \* "idle" | "attempt" | "sleep" | "returned" | "raised"
    ch_attempt,       \* the loop variable `attempt`
    ch_retry_delay,   \* the local retry_delay
    ch_sleeps,        \* delays slept so far in this call
    ch_outcomes,      \* what each attempt of this call met, in order
    ch_result         \* the dictionary returned

chVars == <<ch_pc, ch_attempt, ch_retry_delay, ch_sleeps, ch_outcomes, ch_result>>

VARIABLES
    \* ---- TelegramAnalyzer.get_messages (telegram_client.py:126-203) ----
    gm_pc,            \* "idle" | "fetch" | "after_for" | "returned"
    gm_limit,         \* the argument `limit`
    gm_remaining,     \* the local `remaining`
    gm_older,         \* messages of the channel older than current_offset_date
    gm_attempt,       \* the loop variable `attempt` of the current chunk
    gm_got            \* messages fetched so far in this call

gmVars == <<gm_pc, gm_limit, gm_remaining, gm_older, gm_attempt, gm_got>>

VARIABLES
    \* ---- history of the provider dialogue (bot.py:1937-2018) ----
    sel_pressed,      \* providers whose button was pressed an odd number of
                      \*   times since the dialogue began or the last save
    sel_expected      \* at the last accepted save: the providers current
                      \*   before it, with the pressed ones flipped; {"none"}
                      \*   before the first accepted save

selVars == <<sel_pressed, sel_expected>>

VARIABLES
    \* ---- the strategy dialogue of one user (bot.py:180-204, 240-943) ----
    dlg_state,        \* the FSM state of the user; "idle" is aiogram's None
    dlg_data,         \* keys present in the FSM data of the user, of the
                      \*   keys that these handlers read
    dlg_keyboards,    \* callback data of every button sent so far
    dlg_shown,        \* callback data of the buttons sent by the last handler
    dlg_origin,       \* state in which the add-channel or create-folder
                      \*   dialogue was entered; "none" before the first
    dlg_task_data     \* strategy inputs present in the data handed to the
                      \*   last _generate_strategy_task; {"none"} before it

dlgVars == <<dlg_state, dlg_data, dlg_keyboards, dlg_shown, dlg_origin,
             dlg_task_data>>

VARIABLES
    \* ---- TelegramAnalyzer.client and the calls that use it ----
    \* ---- (telegram_client.py:14-98, services.py:133-195)     ----
    tg_client,        \* self.client: 0 for None, else the client object
    tg_status,        \* per client object: "free" | "unstarted" | "started"
                      \*   | "closed"
    tc_op,            \* per caller: the call it runs, "none" when idle
    tc_pc,            \* per caller: its position in that call
    tc_ref,           \* per caller: the client object whose method it awaits
    tc_attempt,       \* per caller: the loop variable `attempt` of reconnect
    tc_starts,        \* per caller: client.start() calls made by the
                      \*   connect() or reconnect() it runs or ran last
    tc_result,        \* per caller: how its last call ended
    tc_prev,          \* per caller: <<call, result>> of the call before
    ac_attempt,       \* per caller: the loop variable of analyze_channel
    ac_outcome        \* per caller: what analyze_channel does after its
                      \*   finally block: "return" | "retry"

tgVars == <<tg_client, tg_status, tc_op, tc_pc, tc_ref, tc_attempt, tc_starts,
            tc_result, tc_prev, ac_attempt, ac_outcome>>

VARIABLES
    \* ---- one call of send_long_message (bot.py:119-176) ----
    sl_pc,            \* "idle" | "preview" | "document" | "message" | "plain"
    sl_text,          \* "none" before the call, else "empty" | "short" | "long"
    sl_preview,       \* previews delivered to the chat
    sl_document,      \* documents delivered to the chat
    sl_message,       \* whole messages delivered to the chat
    sl_files          \* temporary files that exist

slVars == <<sl_pc, sl_text, sl_preview, sl_document, sl_message, sl_files>>

VARIABLES
    \* ---- the tables of Database (data_manager.py:10-51) ----
    db_foreign_keys,  \* does SQLite enforce foreign keys on a connection
    db_folders,       \* rows of `folders`: [id, name]
    db_channels,      \* rows of `channels`: [id, folder_id]
    db_next_folder,   \* next AUTOINCREMENT id of `folders`
    db_next_channel,  \* next AUTOINCREMENT id of `channels`
    db_last           \* the last call: [op, arg, ok]

dbVars == <<db_foreign_keys, db_folders, db_channels, db_next_folder,
            db_next_channel, db_last>>

\* the parts below the provider dialogue
lateVars == <<dlgVars, tgVars, slVars, dbVars>>

\* the parts up to the provider dialogue
earlyVars == <<retryVars, cfgVars, reqVars, genVars, fnVars, pxVars, chVars,
               gmVars, selVars>>

vars == <<retryVars, cfgVars, reqVars, genVars, fnVars, pxVars, chVars, gmVars,
          selVars, lateVars>>

\* no text function has been called
InitFn ==
    /\ fn_name = "none"
    /\ fn_input = <<>>
    /\ fn_output = <<>>

Helpers == {"retry_async", "retry_on_network_errors"}

\* bot.py:40-46, bot.py:81-88: entry of the helper with its arguments
InitRetryWith(h, m, d) ==
    /\ helper = h
    /\ max_retries = m
    /\ retry_delay = d
    /\ wpc = "call"
    /\ attempt = 0
    /\ current_delay = Rat(d, 1)
    /\ last_exception = NoExc
    /\ sleeps = <<>>
    /\ calls = 0
    /\ last_outcome = NoExc
    /\ raised = NoExc

\* bot.py:72-78 (retry_async) and bot.py:110-113 (wrapper): the error raised
\* once the loop is over
ExhaustedError(h, last, m) ==
    IF h = "retry_async"
    THEN IF last # NoExc
         THEN [type |-> last.type,
               msg |-> <<"Ne", "udalos", "vypolnit", "posle", "popytok">> \o last.msg,
               attempts |-> m]
         ELSE [type |-> "Exception",
               msg |-> <<"Ne", "udalos", "vypolnit", "posle", "popytok">>,
               attempts |-> m]
    ELSE IF last # NoExc
         THEN last
         ELSE [type |-> "Exception",
               msg |-> <<"Ne", "udalos", "vypolnit", "posle", "popytok">>,
               attempts |-> m]

\* what the except clauses store in last_exception (bot.py:54-62, 93-100)
StoredException(h, e) ==
    IF IsTimeoutError(e)
    THEN IF h = "retry_async" THEN e ELSE WrapperTimeoutExc
    ELSE e

\* end of one loop iteration that did not return or raise: next iteration
\* or the final raise.  `last` is the value of last_exception by then.
NextIteration(last) ==
    IF RangeHasNext(attempt, max_retries)
    THEN /\ attempt' = attempt + 1
         /\ wpc' = "call"
         /\ raised' = raised
    ELSE /\ attempt' = attempt
         /\ wpc' = "raised"
         /\ raised' = ExhaustedError(helper, last, max_retries)

\* the wrapped function raised e in this attempt (bot.py:54-70, 93-108)
OnException(e) ==
    IF IsTimeoutError(e) \/ IsNetworkError(e)
    THEN /\ last_exception' = StoredException(helper, e)
         /\ IF SleepGuard(attempt, max_retries)
            THEN /\ wpc' = "sleep"
                 /\ UNCHANGED <<attempt, raised>>
            ELSE NextIteration(StoredException(helper, e))
    ELSE /\ wpc' = "raised"
         /\ raised' = e
         /\ UNCHANGED <<attempt, last_exception>>

\* bot.py:51-52, 91-92: the wrapped function returns
FuncReturns ==
    /\ wpc = "call"
    /\ calls' = calls + 1
    /\ last_outcome' = Returned
    /\ wpc' = "returned"
    /\ UNCHANGED <<helper, max_retries, retry_delay, attempt, current_delay,
                   last_exception, sleeps, raised>>
    /\ UNCHANGED <<cfgVars, reqVars, genVars>>
    /\ UNCHANGED fnVars
    /\ UNCHANGED pxVars
    /\ UNCHANGED chVars
    /\ UNCHANGED gmVars
    /\ UNCHANGED selVars
    /\ UNCHANGED lateVars

\* bot.py:54-65, 93-103: the wrapped function raises, or runs into the
\* timeout of asyncio.wait_for / asyncio.timeout (TimeoutExc)
FuncRaises ==
    /\ wpc = "call"
    /\ \E e \in FuncExceptions :
        /\ calls' = calls + 1
        /\ last_outcome' = e
        /\ OnException(e)
    /\ UNCHANGED <<helper, max_retries, retry_delay, current_delay, sleeps>>
    /\ UNCHANGED <<cfgVars, reqVars, genVars>>
    /\ UNCHANGED fnVars
    /\ UNCHANGED pxVars
    /\ UNCHANGED chVars
    /\ UNCHANGED gmVars
    /\ UNCHANGED selVars
    /\ UNCHANGED lateVars

\* bot.py:68-70, 106-108: await asyncio.sleep(current_delay); current_delay *= 1.5
Sleep ==
    /\ wpc = "sleep"
    /\ sleeps' = Append(sleeps, current_delay)
    /\ current_delay' = NextDelay(current_delay)
    /\ NextIteration(last_exception)
    /\ UNCHANGED <<helper, max_retries, retry_delay, last_exception, calls,
                   last_outcome>>
    /\ UNCHANGED <<cfgVars, reqVars, genVars>>
    /\ UNCHANGED fnVars
    /\ UNCHANGED pxVars
    /\ UNCHANGED chVars
    /\ UNCHANGED gmVars
    /\ UNCHANGED selVars
    /\ UNCHANGED lateVars


(***************************************************************************)
(* Part 2.  AIModelManager and AIManager._make_request.                    *)
(*                                                                         *)
(* A text is a sequence of words; "" is <<>>.  A provider is identified by *)
(* the lower-case name AIModelManager gives it.                            *)
(***************************************************************************)
\* ai_models.py:44-49  available_providers
AvailableProviders == {"ddg", "blackbox", "liaobots", "pollinations"}

\* ai_models.py:14  self.current_providers = [DDG, Blackbox, Liaobots, PollinationsAI]
DefaultProviders == <<"ddg", "blackbox", "liaobots", "pollinations">>

\* ai_models.py:15-25  self.available_models: the names the bot offers and
\* the g4f model object each one selects (an object is written as its
\* attribute of g4f.models)
AvailableModelNames ==
    {"gpt-4", "gpt-4o", "gpt-4o-mini", "claude-3-opus", "claude-3-sonnet",
     "claude-3-haiku", "gemini-pro", "llama-3", "mixtral-8x7b"}

available_models(name) ==
    CASE name = "gpt-4" -> "gpt_4"
      [] name = "gpt-4o" -> "gpt_4o"
      [] name = "gpt-4o-mini" -> "gpt_4o_mini"
      [] name = "claude-3-opus" -> "claude_3_opus"
      [] name = "claude-3-sonnet" -> "claude_3_sonnet"
      [] name = "claude-3-haiku" -> "claude_3_haiku"
      [] name = "gemini-pro" -> "gemini_1_5_pro"
      [] name = "llama-3" -> "llama_3"
      [] name = "mixtral-8x7b" -> "mixtral_8x7b"
      [] OTHER -> "KeyError"

ModelObjects == {available_models(n) : n \in AvailableModelNames}

\* ai_utils.py:466  `.name` of a g4f model object: the identifier the
\* library gives the model, which for models.gemini_1_5_pro is
\* "gemini-1.5-pro"
ModelName(obj) ==
    CASE obj = "gpt_4" -> "gpt-4"
      [] obj = "gpt_4o" -> "gpt-4o"
      [] obj = "gpt_4o_mini" -> "gpt-4o-mini"
      [] obj = "claude_3_opus" -> "claude-3-opus"
      [] obj = "claude_3_sonnet" -> "claude-3-sonnet"
      [] obj = "claude_3_haiku" -> "claude-3-haiku"
      [] obj = "gemini_1_5_pro" -> "gemini-1.5-pro"
      [] obj = "llama_3" -> "llama-3"
      [] OTHER -> "mixtral-8x7b"

\* ai_models.py:13  self.current_model = models.gpt_4o
DefaultModel == "gpt_4o"

\* no configuration call has been made yet
NoCall == [op |-> "none", arg |-> <<>>, before |-> <<>>]

\* ai_models.py:12-25  AIModelManager.__init__
InitConfig ==
    /\ current_model = DefaultModel
    /\ current_providers = DefaultProviders
    /\ cfg_ret = "none"
    /\ cfg_call = NoCall
    /\ selected_providers = <<>>

\* names a caller passes to set_providers
ProviderNames == {"ddg", "DDG", "Blackbox", "unknown"}

NameLists == UNION {[1..n -> ProviderNames] : n \in 0..MaxNames}

\* mutant: every name is taken for a provider
RecognisedAny(name) == TRUE

\* ai_models.py:53  if provider.lower() in available_providers
Recognised(name) == Lower(name) \in AvailableProviders

\* ai_models.py:51-54  the providers of the recognised names, in order
RECURSIVE NewProviders(_)
NewProviders(names) ==
    IF names = <<>> THEN <<>>
    ELSE IF Recognised(Head(names))
         THEN <<Lower(Head(names))>> \o NewProviders(Tail(names))
         ELSE NewProviders(Tail(names))

\* mutant: the new list is stored whatever it holds
ProvidersAcceptedAlways(new_providers) == TRUE

\* ai_models.py:56  if new_providers:
ProvidersAccepted(new_providers) == new_providers # <<>>

\* ai_models.py:42-59  AIModelManager.set_providers
set_providers(names) ==
    /\ cfg_call' = [op |-> "set_providers", arg |-> names, before |-> current_providers]
    /\ IF ProvidersAccepted(NewProviders(names))
       THEN /\ current_providers' = NewProviders(names)
            /\ cfg_ret' = "True"
       ELSE /\ current_providers' = current_providers
            /\ cfg_ret' = "False"
    /\ UNCHANGED current_model

\* ai_models.py:61-69  AIModelManager.get_current_providers: the names of
\* the current providers, in order
get_current_providers == current_providers

\* ai_models.py:38-40  AIModelManager.get_available_models
get_available_models == AvailableModelNames

\* ai_utils.py:464-466  AIManager.get_current_model
get_current_model == ModelName(current_model)

\* names a caller passes to set_model: the names of the /models keyboard
\* (bot.py:1442), a name that is not offered and the empty name
ModelNameArgs == AvailableModelNames \cup {"gpt-5", ""}

\* mutant: any name selects a model
KnownModelAny(name) == TRUE

\* ai_models.py:29  if model_name in self.available_models
KnownModel(name) == name \in AvailableModelNames

\* ai_models.py:27-32  AIModelManager.set_model; an unknown name has no
\* entry in available_models
set_model(name) ==
    /\ cfg_call' = [op |-> "set_model", arg |-> <<name>>, before |-> <<current_model>>]
    /\ IF KnownModel(name)
       THEN /\ current_model' = available_models(name)
            /\ cfg_ret' = "True"
       ELSE /\ current_model' = current_model
            /\ cfg_ret' = "False"
    /\ UNCHANGED current_providers

\* ---- backend (g4f.ChatCompletion.create_async) outcomes ----
Words == {"Strategy", "text", " "}

\* a chunk of a streaming response: a str, or a dict with a "content" field
Chunks ==
    {[kind |-> "str", words |-> <<>>],
     [kind |-> "str", words |-> <<"Strategy">>],
     [kind |-> "str", words |-> <<" ">>],
     [kind |-> "dict", words |-> <<"text">>]}

ChunkLists == UNION {[1..n -> Chunks] : n \in 0..MaxChunks}

BackendExceptions ==
    {[type |-> "Exception", msg |-> <<"Connection", "refused">>, attempts |-> 0],
     [type |-> "Exception", msg |-> <<"invalid", "token">>, attempts |-> 0]}

\* a streaming call yields chunks and then ends, or raises exc
StreamOutcomes == [chunks : ChunkLists, exc : {NoExc} \cup BackendExceptions]

NoStream == [chunks |-> <<>>, exc |-> [type |-> "NotCalled", msg |-> <<>>, attempts |-> 0]]

\* a buffered call returns a str, a dict with "content", or None, or raises
BufferedValues ==
    {[kind |-> "str", words |-> <<>>],
     [kind |-> "str", words |-> <<"Strategy", "text">>],
     [kind |-> "str", words |-> <<" ">>],
     [kind |-> "dict", words |-> <<"Strategy">>],
     [kind |-> "None", words |-> <<>>]}

BufferedOutcomes ==
    {[value |-> v, exc |-> NoExc] : v \in BufferedValues}
    \cup {[value |-> [kind |-> "None", words |-> <<>>], exc |-> e] : e \in BackendExceptions}

NoBuffered == [value |-> [kind |-> "None", words |-> <<>>],
               exc |-> [type |-> "NotCalled", msg |-> <<>>, attempts |-> 0]]

\* ai_utils.py:31-47  `if chunk:` and the unwrapping of a dict chunk
RECURSIVE JoinChunks(_)
JoinChunks(chunks) ==
    IF chunks = <<>> THEN <<>>
    ELSE Head(chunks).words \o JoinChunks(Tail(chunks))

\* ai_utils.py:73  text returned for an empty response
EmptyResponseText == <<"Ne", "udalos", "poluchit", "otvet", "ot", "modeli">>

\* ai_utils.py:78  "<error prefix>: " + str(e)
ErrorPrefix == <<"Oshibka", "pri", "obrabotke", "zaprosa">>
ErrorText(e) == ErrorPrefix \o e.msg

\* ai_utils.py:70-75  `if not complete_response:` ... return
CheckedResponse(complete_response) ==
    IF complete_response = <<>> THEN EmptyResponseText ELSE complete_response

\* ai_utils.py:64-66  unwrapping of a buffered dict response
BufferedText(v) == v.words

\* ai_utils.py:80-84 etc.: temperature (tenths) each public operation passes
Operations == {"analyze_situation", "generate_strategy"}
Temperature(op) ==
    CASE op = "analyze_situation" -> 7
      [] OTHER -> 8

\* mutant: each backend call reads the configuration again
CallRereadsConfig(streaming, op) ==
    [stream |-> streaming, model |-> current_model, providers |-> current_providers,
     messages |-> op, temperature |-> Temperature(op)]

\* one create_async call as the backend sees it
Call(streaming, op) ==
    [stream |-> streaming, model |-> rq_model, providers |-> rq_providers,
     messages |-> op, temperature |-> Temperature(op)]

InitRequest ==
    /\ rq_pc = "idle"
    /\ rq_op = "none"
    /\ rq_model = "none"
    /\ rq_providers = <<>>
    /\ rq_calls = <<>>
    /\ rq_stream = NoStream
    /\ rq_buffered = NoBuffered
    /\ rq_result = <<>>

\* ai_utils.py:13-19  entry of _make_request: model and providers are read
StartRequest ==
    /\ rq_pc = "idle"
    /\ \E op \in Operations : rq_op' = op
    /\ rq_model' = current_model
    /\ rq_providers' = current_providers
    /\ rq_calls' = <<>>
    /\ rq_stream' = NoStream
    /\ rq_buffered' = NoBuffered
    /\ rq_result' = <<>>
    /\ rq_pc' = "stream"
    /\ UNCHANGED <<cfgVars, retryVars, genVars>>
    /\ UNCHANGED fnVars
    /\ UNCHANGED pxVars
    /\ UNCHANGED chVars
    /\ UNCHANGED gmVars
    /\ UNCHANGED selVars
    /\ UNCHANGED lateVars

\* mutant: the buffered call is made after a successful stream as well
StreamEndsRequestNever(so) == FALSE

\* ai_utils.py:21-53  the streaming call ended without raising
StreamEndsRequest(so) == so.exc = NoExc

\* ai_utils.py:21-51, 70-75  streaming call
StreamCall ==
    /\ rq_pc = "stream"
    /\ \E so \in StreamOutcomes :
        /\ rq_stream' = so
        /\ rq_calls' = Append(rq_calls, Call(TRUE, rq_op))
        /\ IF StreamEndsRequest(so)
           THEN /\ rq_result' = CheckedResponse(JoinChunks(so.chunks))
                /\ rq_pc' = "done"
           ELSE /\ rq_result' = rq_result
                /\ rq_pc' = "fallback"
    /\ UNCHANGED <<rq_op, rq_model, rq_providers, rq_buffered, cfgVars, retryVars, genVars>>
    /\ UNCHANGED fnVars
    /\ UNCHANGED pxVars
    /\ UNCHANGED chVars
    /\ UNCHANGED gmVars
    /\ UNCHANGED selVars
    /\ UNCHANGED lateVars

\* mutant: no fallback, the stream error is reported at once
FallbackResultNone(bo) == ErrorText(rq_stream.exc)

\* mutant: the chunks received before the failure are kept
FallbackResultKeepsChunks(bo) ==
    IF bo.exc = NoExc
    THEN CheckedResponse(JoinChunks(rq_stream.chunks) \o BufferedText(bo.value))
    ELSE ErrorText(bo.exc)

\* ai_utils.py:53-78  result of the request after the buffered call
FallbackResult(bo) ==
    IF bo.exc = NoExc
    THEN CheckedResponse(BufferedText(bo.value))
    ELSE ErrorText(bo.exc)

\* ai_utils.py:53-78  buffered call after a failed streaming call
BufferedCall ==
    /\ rq_pc = "fallback"
    /\ \E bo \in BufferedOutcomes :
        /\ rq_buffered' = bo
        /\ rq_calls' = Append(rq_calls, Call(FALSE, rq_op))
        /\ rq_result' = FallbackResult(bo)
        /\ rq_pc' = "done"
    /\ UNCHANGED <<rq_op, rq_model, rq_providers, rq_stream, cfgVars, retryVars, genVars>>
    /\ UNCHANGED fnVars
    /\ UNCHANGED pxVars
    /\ UNCHANGED chVars
    /\ UNCHANGED gmVars
    /\ UNCHANGED selVars
    /\ UNCHANGED lateVars

\* ai_utils.py:75, 78  _make_request has returned; its locals are gone
RequestReturns ==
    /\ rq_pc = "done"
    /\ rq_pc' = "idle"
    /\ rq_op' = "none"
    /\ rq_model' = "none"
    /\ rq_providers' = <<>>
    /\ rq_calls' = <<>>
    /\ rq_stream' = NoStream
    /\ rq_buffered' = NoBuffered
    /\ rq_result' = <<>>
    /\ UNCHANGED <<cfgVars, retryVars, genVars>>
    /\ UNCHANGED fnVars
    /\ UNCHANGED pxVars
    /\ UNCHANGED chVars
    /\ UNCHANGED gmVars
    /\ UNCHANGED selVars
    /\ UNCHANGED lateVars

\* a configuration call between two requests (bot.py:1986-2018 calls
\* ai_manager.set_providers)
SetProviders ==
    /\ rq_pc = "idle"
    /\ \E names \in NameLists : set_providers(names)
    /\ UNCHANGED <<selected_providers, reqVars, retryVars, genVars>>
    /\ UNCHANGED fnVars
    /\ UNCHANGED pxVars
    /\ UNCHANGED chVars
    /\ UNCHANGED gmVars
    /\ UNCHANGED selVars
    /\ UNCHANGED lateVars

\* bot.py:1912-1935  set_model_callback: ai_manager.set_model(model_name)
SetModel ==
    /\ rq_pc = "idle"
    /\ \E name \in ModelNameArgs : set_model(name)
    /\ UNCHANGED <<selected_providers, reqVars, retryVars, genVars>>
    /\ UNCHANGED fnVars
    /\ UNCHANGED pxVars
    /\ UNCHANGED chVars
    /\ UNCHANGED gmVars
    /\ UNCHANGED selVars
    /\ UNCHANGED lateVars

\* _make_request is suspended at one of its two awaits of create_async
\* (ai_utils.py:24, 56): other handlers run meanwhile
RequestSuspended == rq_pc \in {"stream", "fallback"}

\* arguments of the configuration calls explored during a request
InflightNameLists == {<<"ddg">>, <<"Blackbox", "ddg">>, <<"unknown">>}
InflightModelNames == {"gemini-pro", "gpt-5"}

\* bot.py:1986-2018  set_providers runs while a request is suspended; the
\* call has no await inside (ai_models.py:42-59)
SetProvidersMidRequest ==
    /\ RequestSuspended
    /\ \E names \in InflightNameLists : set_providers(names)
    /\ UNCHANGED <<selected_providers, reqVars, retryVars, genVars>>
    /\ UNCHANGED fnVars
    /\ UNCHANGED pxVars
    /\ UNCHANGED chVars
    /\ UNCHANGED gmVars
    /\ UNCHANGED selVars
    /\ UNCHANGED lateVars

\* bot.py:1912-1935  set_model runs while a request is suspended
\* (ai_models.py:27-32)
SetModelMidRequest ==
    /\ RequestSuspended
    /\ \E name \in InflightModelNames : set_model(name)
    /\ UNCHANGED <<selected_providers, reqVars, retryVars, genVars>>
    /\ UNCHANGED fnVars
    /\ UNCHANGED pxVars
    /\ UNCHANGED chVars
    /\ UNCHANGED gmVars
    /\ UNCHANGED selVars
    /\ UNCHANGED lateVars

InitSelection ==
    /\ sel_pressed = {}
    /\ sel_expected = {"none"}

\* list.remove(x): the first occurrence of x is taken out
RECURSIVE Remove(_, _)
Remove(list, x) ==
    IF list = <<>> THEN <<>>
    ELSE IF Head(list) = x THEN Tail(list)
         ELSE <<Head(list)>> \o Remove(Tail(list), x)

InList(x, list) == \E i \in 1..Len(list) : list[i] = x

\* the provider buttons a user presses (bot.py:1471, 1968: one button per
\* name of get_available_providers)
ToggleNames == {"ddg", "blackbox"}

\* bot.py:1937-1983  toggle_provider_callback: the pressed provider is taken
\* out of, or appended to, the manager's current names, and the list is
\* stored as selected_providers
TogglePressed(provider) ==
    /\ selected_providers' =
          IF InList(provider, get_current_providers)
          THEN Remove(get_current_providers, provider)
          ELSE Append(get_current_providers, provider)
    /\ UNCHANGED <<current_model, current_providers, cfg_ret, cfg_call>>

ToggleProvider ==
    /\ rq_pc = "idle"
    /\ \E provider \in ToggleNames : TogglePressed(provider)
    /\ UNCHANGED <<reqVars, retryVars, genVars>>
    /\ UNCHANGED fnVars
    /\ UNCHANGED pxVars
    /\ UNCHANGED chVars
    /\ UNCHANGED gmVars
    /\ UNCHANGED selVars
    /\ UNCHANGED lateVars

\* bot.py:1986-2018  save_providers_callback: an empty selection is refused
\* before set_providers is called; otherwise set_providers, then
\* state.finish() drops the selection
SavePressed ==
    IF selected_providers = <<>>
    THEN UNCHANGED cfgVars
    ELSE /\ set_providers(selected_providers)
         /\ selected_providers' = <<>>

SaveProviders ==
    /\ rq_pc = "idle"
    /\ SavePressed
    /\ UNCHANGED <<reqVars, retryVars, genVars>>
    /\ UNCHANGED fnVars
    /\ UNCHANGED pxVars
    /\ UNCHANGED chVars
    /\ UNCHANGED gmVars
    /\ UNCHANGED selVars
    /\ UNCHANGED lateVars


(***************************************************************************)
(* Part 3.  The generation flows of bot.py: generate_strategy (wrapped by  *)
(* retry_on_network_errors) and generate_slogans_start, each with its      *)
(* background generation task and its indicator loop.                      *)
(*                                                                         *)
(* asyncio runs one coroutine at a time: the tasks step only while the     *)
(* flow's coroutine is suspended at an await.                              *)
(***************************************************************************)
Flows == {"strategy", "slogans"}

\* awaits of the flow before its try block
PreTryPoints == {"start"}
\* awaits inside the try block (bot.py:888-963, 2063-2095)
TryPoints == {"await_gen", "edit_error", "send_strategy", "send_generic"}
\* awaits inside the two outer except clauses (bot.py:965-975, 2097-2105)
HandlerPoints == {"cancel_edit", "exc_edit"}
AwaitPoints == PreTryPoints \cup TryPoints \cup HandlerPoints
\* the coroutine is running between two awaits
RunningPoints == {"after_gen", "inspect"}
FlowPoints == {"none"} \cup AwaitPoints \cup RunningPoints

\* exceptions of the Telegram API calls (send_message, edit_text, ...)
ApiExceptions ==
    {[type |-> "Exception", msg |-> <<"Connection", "refused">>, attempts |-> 0],
     [type |-> "Exception", msg |-> <<"invalid", "token">>, attempts |-> 0]}

\* str.startswith on texts
StartsWith(text, prefix) ==
    /\ Len(text) >= Len(prefix)
    /\ SubSeq(text, 1, Len(prefix)) = prefix

\* ai_utils.py:91, 119  prefix of the empty-response text the callers test
EmptyPrefix == <<"Ne", "udalos", "poluchit", "otvet">>

\* ai_utils.py:91, 119, 252  the test the public operations apply to the
\* return value of _make_request
IsFailureText(response) ==
    \/ response = <<>>
    \/ StartsWith(response, ErrorPrefix)
    \/ StartsWith(response, EmptyPrefix)

\* the backend outcomes the flows are explored with
FlowStreamOutcomes ==
    {[chunks |-> <<[kind |-> "str", words |-> <<"Strategy">>],
                   [kind |-> "dict", words |-> <<"text">>]>>, exc |-> NoExc],
     [chunks |-> <<>>, exc |-> NoExc],
     [chunks |-> <<[kind |-> "str", words |-> <<"Strategy">>]>>,
      exc |-> [type |-> "Exception", msg |-> <<"Connection", "refused">>, attempts |-> 0]]}

FlowBufferedOutcomes ==
    {[value |-> [kind |-> "str", words |-> <<"Strategy", "text">>], exc |-> NoExc],
     [value |-> [kind |-> "None", words |-> <<>>],
      exc |-> [type |-> "Exception", msg |-> <<"Connection", "refused">>, attempts |-> 0]],
     [value |-> [kind |-> "None", words |-> <<>>],
      exc |-> [type |-> "Exception", msg |-> <<"invalid", "token">>, attempts |-> 0]]}

\* ai_utils.py:13-78  return value of one _make_request call whose
\* streaming call delivers so and whose buffered call (if made) delivers bo
MakeRequest(so, bo) ==
    IF StreamEndsRequest(so)
    THEN CheckedResponse(JoinChunks(so.chunks))
    ELSE IF bo.exc = NoExc
         THEN CheckedResponse(BufferedText(bo.value))
         ELSE ErrorText(bo.exc)

\* results of the public operations: a dict with or without an "error" key
NoResult == [has_error |-> FALSE, error |-> <<>>, strategy |-> <<>>, analysis |-> <<>>]

\* ai_utils.py:94  "analysis" text of a failed analysis
AnalysisFailedText == <<"Ne", "udalos", "vypolnit", "analiz">>
\* ai_utils.py:122  "strategy" text of a failed generation
StrategyFailedText == <<"Ne", "udalos", "sgenerirovat", "strategiyu">>
\* ai_utils.py:255  the one slogan returned for a failed generation
SlogansFailedText == <<"Ne", "udalos", "sgenerirovat", "lozungi">>

\* ai_utils.py:80-102  AIManager.analyze_situation on the response
analyze_situation(response) ==
    IF IsFailureText(response)
    THEN [has_error |-> TRUE, error |-> response, strategy |-> <<>>,
          analysis |-> AnalysisFailedText]
    ELSE [has_error |-> FALSE, error |-> <<>>, strategy |-> <<>>,
          analysis |-> response]

\* ai_utils.py:104-130  AIManager.generate_strategy on the response, and
\* bot.py:1032  strategy_result['analysis'] = situation_analysis.get('analysis', '')
generate_strategy(response, situation_analysis) ==
    IF IsFailureText(response)
    THEN [has_error |-> TRUE, error |-> response, strategy |-> StrategyFailedText,
          analysis |-> situation_analysis.analysis]
    ELSE [has_error |-> FALSE, error |-> <<>>, strategy |-> response,
          analysis |-> situation_analysis.analysis]

\* ai_utils.py:238-265  AIManager.generate_slogans on the response: a list,
\* never an error value (bot.py:2069 finds no "error" string in it)
generate_slogans(response) ==
    IF IsFailureText(response)
    THEN [has_error |-> FALSE, error |-> <<>>, strategy |-> SlogansFailedText,
          analysis |-> <<>>]
    ELSE [has_error |-> FALSE, error |-> <<>>, strategy |-> response,
          analysis |-> <<>>]

\* ---- how the flow's coroutine leaves the wrapper's attempt ----
\* bot.py:92  return await func(*args, **kwargs)
WReturn ==
    /\ wpc' = "returned"
    /\ last_outcome' = Returned
    /\ UNCHANGED <<attempt, last_exception, raised>>

\* the coroutine raised e: bot.py:93-108 for the wrapped generate_strategy;
\* generate_slogans_start has no wrapper and raises to its caller
WRaise(e) ==
    /\ last_outcome' = e
    /\ IF flow = "strategy"
       THEN OnException(e)
       ELSE /\ wpc' = "raised"
            /\ raised' = e
            /\ UNCHANGED <<attempt, last_exception>>

\* a CancelledError left the coroutine.  asyncio.timeout (bot.py:91) turns
\* it into TimeoutError when its own deadline caused it; otherwise it
\* passes the except clauses of the wrapper (it is no Exception)
WEscape(byTimeout) ==
    IF byTimeout
    THEN WRaise(TimeoutExc)
    ELSE /\ wpc' = "cancelled"
         /\ UNCHANGED <<attempt, last_exception, raised, last_outcome>>

wrapperFrame == <<helper, max_retries, retry_delay, current_delay, sleeps, calls>>

\* mutant: the indicator is left running
CancelSkipped(req) == req

\* bot.py:892, 2067  update_task.cancel() after the generation result arrived
CancelAfterResult(req) == TRUE

\* bot.py:967, 2099  update_task.cancel() in `except asyncio.CancelledError`
CancelInCancelledHandler(req) == TRUE

\* bot.py:972, 2103  update_task.cancel() in `except Exception`
CancelInExceptionHandler(req) == TRUE

\* aiogram FSMContext.finish() drops the state and the data (bot.py:907,
\* 963, 969, 975); generate_slogans_start never calls it
AfterFinish(stored) == IF flow = "strategy" THEN FALSE ELSE stored

\* bot.py:81-92 / dispatcher: a new attempt of the flow's coroutine starts
BodyStart ==
    /\ wpc = "call"
    /\ g_pc = "none"
    /\ calls' = calls + 1
    /\ g_pc' = "start"
    /\ g_pending' = FALSE
    /\ g_result' = NoResult
    /\ expired' = FALSE
    /\ midflight' = FALSE
    /\ att_stored' = FALSE
    /\ att_delivered' = FALSE
    /\ UNCHANGED <<helper, max_retries, retry_delay, wpc, attempt, current_delay,
                   last_exception, sleeps, last_outcome, raised>>
    /\ UNCHANGED <<flow, ext_cancelled, taskVars, updVars, stored_strategy, shown,
                   cfgVars, reqVars>>
    /\ UNCHANGED fnVars
    /\ UNCHANGED pxVars
    /\ UNCHANGED chVars
    /\ UNCHANGED gmVars
    /\ UNCHANGED selVars
    /\ UNCHANGED lateVars

\* bot.py:880-886, 2052-2061  the processing message is sent and both tasks
\* are created
SendProcessingOk ==
    /\ g_pc = "start"
    /\ shown' = shown \cup {"processing"}
    /\ t_pc' = "created"
    /\ t_cancel_req' = FALSE
    /\ t_analysis' = NoResult
    /\ t_result' = NoResult
    /\ u_pc' = "created"
    /\ u_cancel_req' = FALSE
    /\ u_dots' = 0
    /\ g_pc' = "await_gen"
    /\ UNCHANGED <<g_pending, g_result, flow, cancelVars, stored_strategy,
                   att_stored, att_delivered, retryVars, cfgVars, reqVars>>
    /\ UNCHANGED fnVars
    /\ UNCHANGED pxVars
    /\ UNCHANGED chVars
    /\ UNCHANGED gmVars
    /\ UNCHANGED selVars
    /\ UNCHANGED lateVars

\* bot.py:880, 2052  bot.send_message raises before the try block
SendProcessingRaises ==
    /\ g_pc = "start"
    /\ \E e \in ApiExceptions : WRaise(e)
    /\ g_pc' = "none"
    /\ UNCHANGED <<wrapperFrame, g_pending, g_result, flow, cancelVars, taskVars,
                   updVars, uiVars, cfgVars, reqVars>>
    /\ UNCHANGED fnVars
    /\ UNCHANGED pxVars
    /\ UNCHANGED chVars
    /\ UNCHANGED gmVars
    /\ UNCHANGED selVars
    /\ UNCHANGED lateVars

\* ---- generation task ----
FlowSuspended == g_pc \notin RunningPoints

\* bot.py:979-981, 2109-2118  the task starts and reaches its first request
GenStart ==
    /\ FlowSuspended
    /\ t_pc = "created"
    /\ ~t_cancel_req
    /\ t_pc' = IF flow = "strategy" THEN "analyze" ELSE "generate"
    /\ UNCHANGED <<t_cancel_req, t_analysis, t_result, flow, bodyVars, cancelVars,
                   updVars, uiVars, retryVars, cfgVars, reqVars>>
    /\ UNCHANGED fnVars
    /\ UNCHANGED pxVars
    /\ UNCHANGED chVars
    /\ UNCHANGED gmVars
    /\ UNCHANGED selVars
    /\ UNCHANGED lateVars

\* bot.py:981  situation_analysis = await ai_manager.analyze_situation(...)
GenAnalyze ==
    /\ FlowSuspended
    /\ t_pc = "analyze"
    /\ ~t_cancel_req
    /\ \E so \in FlowStreamOutcomes, bo \in FlowBufferedOutcomes :
          t_analysis' = analyze_situation(MakeRequest(so, bo))
    /\ t_pc' = "generate"
    /\ UNCHANGED <<t_cancel_req, t_result, flow, bodyVars, cancelVars,
                   updVars, uiVars, retryVars, cfgVars, reqVars>>
    /\ UNCHANGED fnVars
    /\ UNCHANGED pxVars
    /\ UNCHANGED chVars
    /\ UNCHANGED gmVars
    /\ UNCHANGED selVars
    /\ UNCHANGED lateVars

\* bot.py:990-1033  strategy_result = await ai_manager.generate_strategy*(...);
\* bot.py:2118-2124  slogans = await ai_manager.generate_slogans(...)
GenGenerate ==
    /\ FlowSuspended
    /\ t_pc = "generate"
    /\ ~t_cancel_req
    /\ \E so \in FlowStreamOutcomes, bo \in FlowBufferedOutcomes :
          t_result' = IF flow = "strategy"
                      THEN generate_strategy(MakeRequest(so, bo), t_analysis)
                      ELSE generate_slogans(MakeRequest(so, bo))
    /\ t_pc' = "done"
    /\ UNCHANGED <<t_cancel_req, t_analysis, flow, bodyVars, cancelVars,
                   updVars, uiVars, retryVars, cfgVars, reqVars>>
    /\ UNCHANGED fnVars
    /\ UNCHANGED pxVars
    /\ UNCHANGED chVars
    /\ UNCHANGED gmVars
    /\ UNCHANGED selVars
    /\ UNCHANGED lateVars

\* the CancelledError reaches the task at its await; `except Exception`
\* (bot.py:1035, 2126) does not catch it
GenCancelled ==
    /\ FlowSuspended
    /\ t_pc \in {"created", "analyze", "generate"}
    /\ t_cancel_req
    /\ t_pc' = "cancelled"
    /\ UNCHANGED <<t_cancel_req, t_analysis, t_result, flow, bodyVars, cancelVars,
                   updVars, uiVars, retryVars, cfgVars, reqVars>>
    /\ UNCHANGED fnVars
    /\ UNCHANGED pxVars
    /\ UNCHANGED chVars
    /\ UNCHANGED gmVars
    /\ UNCHANGED selVars
    /\ UNCHANGED lateVars

\* ---- indicator loop ----
\* bot.py:1044-1045  dots = (dots + 1) % 4, then the edit is awaited
UpdNextEdit ==
    /\ FlowSuspended
    /\ u_pc \in {"created", "sleep"}
    /\ ~u_cancel_req
    /\ u_dots' = (u_dots + 1) % 4
    /\ u_pc' = "edit"
    /\ UNCHANGED <<u_cancel_req, flow, bodyVars, cancelVars, taskVars, uiVars,
                   retryVars, cfgVars, reqVars>>
    /\ UNCHANGED fnVars
    /\ UNCHANGED pxVars
    /\ UNCHANGED chVars
    /\ UNCHANGED gmVars
    /\ UNCHANGED selVars
    /\ UNCHANGED lateVars

\* bot.py:1045-1046  the edit succeeded, the loop sleeps one second
UpdEditOk ==
    /\ FlowSuspended
    /\ u_pc = "edit"
    /\ ~u_cancel_req
    /\ u_pc' = "sleep"
    /\ shown' = shown \cup {"dots"}
    /\ UNCHANGED <<u_cancel_req, u_dots, flow, bodyVars, cancelVars, taskVars,
                   stored_strategy, att_stored, att_delivered, retryVars, cfgVars,
                   reqVars>>
    /\ UNCHANGED fnVars
    /\ UNCHANGED pxVars
    /\ UNCHANGED chVars
    /\ UNCHANGED gmVars
    /\ UNCHANGED selVars
    /\ UNCHANGED lateVars

\* bot.py:1050-1051  the edit raised: the error is logged and the loop ends
UpdEditFails ==
    /\ FlowSuspended
    /\ u_pc = "edit"
    /\ ~u_cancel_req
    /\ u_pc' = "finished"
    /\ UNCHANGED <<u_cancel_req, u_dots, flow, bodyVars, cancelVars, taskVars, uiVars,
                   retryVars, cfgVars, reqVars>>
    /\ UNCHANGED fnVars
    /\ UNCHANGED pxVars
    /\ UNCHANGED chVars
    /\ UNCHANGED gmVars
    /\ UNCHANGED selVars
    /\ UNCHANGED lateVars

\* bot.py:1047-1049  the CancelledError reaches the loop
UpdCancelled ==
    /\ FlowSuspended
    /\ u_pc \in {"created", "edit", "sleep"}
    /\ u_cancel_req
    /\ u_pc' = "cancelled"
    /\ UNCHANGED <<u_cancel_req, u_dots, flow, bodyVars, cancelVars, taskVars, uiVars,
                   retryVars, cfgVars, reqVars>>
    /\ UNCHANGED fnVars
    /\ UNCHANGED pxVars
    /\ UNCHANGED chVars
    /\ UNCHANGED gmVars
    /\ UNCHANGED selVars
    /\ UNCHANGED lateVars

\* ---- the flow after `await generation_task` ----
\* bot.py:890, 2065  the await returns the task's result
AwaitGenReturns ==
    /\ g_pc = "await_gen"
    /\ ~g_pending
    /\ t_pc = "done"
    /\ g_result' = t_result
    /\ g_pc' = "after_gen"
    /\ UNCHANGED <<g_pending, flow, cancelVars, taskVars, updVars, uiVars,
                   retryVars, cfgVars, reqVars>>
    /\ UNCHANGED fnVars
    /\ UNCHANGED pxVars
    /\ UNCHANGED chVars
    /\ UNCHANGED gmVars
    /\ UNCHANGED selVars
    /\ UNCHANGED lateVars

\* bot.py:892, 2067  update_task.cancel()
CancelIndicator ==
    /\ g_pc = "after_gen"
    /\ u_cancel_req' = CancelAfterResult(u_cancel_req)
    /\ g_pc' = "inspect"
    /\ UNCHANGED <<g_pending, g_result, u_pc, u_dots, flow, cancelVars, taskVars,
                   uiVars, retryVars, cfgVars, reqVars>>
    /\ UNCHANGED fnVars
    /\ UNCHANGED pxVars
    /\ UNCHANGED chVars
    /\ UNCHANGED gmVars
    /\ UNCHANGED selVars
    /\ UNCHANGED lateVars

\* bot.py:895, 2069  the result holds an error: the error text is shown
InspectError ==
    /\ g_pc = "inspect"
    /\ g_result.has_error
    /\ g_pc' = "edit_error"
    /\ UNCHANGED <<g_pending, g_result, flow, cancelVars, taskVars, updVars, uiVars,
                   retryVars, cfgVars, reqVars>>
    /\ UNCHANGED fnVars
    /\ UNCHANGED pxVars
    /\ UNCHANGED chVars
    /\ UNCHANGED gmVars
    /\ UNCHANGED selVars
    /\ UNCHANGED lateVars

\* bot.py:911-942  the strategy is stored in the dialogue data and sent;
\* bot.py:2076-2095  the slogans are sent
InspectSuccess ==
    /\ g_pc = "inspect"
    /\ ~g_result.has_error
    /\ stored_strategy' = IF flow = "strategy" THEN TRUE ELSE stored_strategy
    /\ att_stored' = (flow = "strategy")
    /\ g_pc' = "send_strategy"
    /\ UNCHANGED <<g_pending, g_result, flow, cancelVars, taskVars, updVars, shown,
                   att_delivered, retryVars, cfgVars, reqVars>>
    /\ UNCHANGED fnVars
    /\ UNCHANGED pxVars
    /\ UNCHANGED chVars
    /\ UNCHANGED gmVars
    /\ UNCHANGED selVars
    /\ UNCHANGED lateVars

\* bot.py:903-906  text that replaces the processing message when the
\* result holds an error: f"...: {strategy_result['error']}"
ErrorResultMessage(result) ==
    <<"Oshibka", "pri", "generacii", "strategii:">> \o result.error

\* bot.py:903-908, 2070-2074  the error text replaces the processing message
EditErrorOk ==
    /\ g_pc = "edit_error"
    /\ shown' = shown \cup {"error_result"}
    /\ stored_strategy' = AfterFinish(stored_strategy)
    /\ g_pc' = "none"
    /\ WReturn
    /\ UNCHANGED <<wrapperFrame, g_pending, g_result, flow, cancelVars, taskVars,
                   updVars, att_stored, att_delivered, cfgVars, reqVars>>
    /\ UNCHANGED fnVars
    /\ UNCHANGED pxVars
    /\ UNCHANGED chVars
    /\ UNCHANGED gmVars
    /\ UNCHANGED selVars
    /\ UNCHANGED lateVars

\* an await inside the try block raised e: `except Exception` (bot.py:970-974,
\* 2101-2105) cancels the indicator and shows str(e)
ToExceptionHandler ==
    /\ u_cancel_req' = CancelInExceptionHandler(u_cancel_req)
    /\ g_pc' = "exc_edit"

EditErrorRaises ==
    /\ g_pc = "edit_error"
    /\ ToExceptionHandler
    /\ UNCHANGED <<g_pending, g_result, u_pc, u_dots, flow, cancelVars, taskVars,
                   uiVars, retryVars, cfgVars, reqVars>>
    /\ UNCHANGED fnVars
    /\ UNCHANGED pxVars
    /\ UNCHANGED chVars
    /\ UNCHANGED gmVars
    /\ UNCHANGED selVars
    /\ UNCHANGED lateVars

\* bot.py:942-943, 2090-2095  send_long_message delivered the text
SendStrategyOk ==
    /\ g_pc = "send_strategy"
    /\ shown' = shown \cup {"result"}
    /\ att_delivered' = TRUE
    /\ g_pc' = "none"
    /\ WReturn
    /\ UNCHANGED <<wrapperFrame, g_pending, g_result, flow, cancelVars, taskVars,
                   updVars, stored_strategy, att_stored, cfgVars, reqVars>>
    /\ UNCHANGED fnVars
    /\ UNCHANGED pxVars
    /\ UNCHANGED chVars
    /\ UNCHANGED gmVars
    /\ UNCHANGED selVars
    /\ UNCHANGED lateVars

\* bot.py:944-962  send_long_message raised (having delivered a part of the
\* text or nothing): generate_strategy deletes the processing message and
\* sends a generic error; bot.py:2101  generate_slogans_start goes to its
\* `except Exception`
SendStrategyRaises ==
    /\ g_pc = "send_strategy"
    /\ \E part \in BOOLEAN :
        /\ shown' = IF part THEN shown \cup {"result"} ELSE shown
        /\ att_delivered' = part
    /\ IF flow = "strategy"
       THEN /\ g_pc' = "send_generic"
            /\ UNCHANGED u_cancel_req
       ELSE ToExceptionHandler
    /\ UNCHANGED <<g_pending, g_result, u_pc, u_dots, flow, cancelVars, taskVars,
                   stored_strategy, att_stored, retryVars, cfgVars, reqVars>>
    /\ UNCHANGED fnVars
    /\ UNCHANGED pxVars
    /\ UNCHANGED chVars
    /\ UNCHANGED gmVars
    /\ UNCHANGED selVars
    /\ UNCHANGED lateVars

\* bot.py:958-963  the generic error message is sent, the dialogue finished
SendGenericOk ==
    /\ g_pc = "send_generic"
    /\ shown' = shown \cup {"generic_error"}
    /\ stored_strategy' = AfterFinish(stored_strategy)
    /\ g_pc' = "none"
    /\ WReturn
    /\ UNCHANGED <<wrapperFrame, g_pending, g_result, flow, cancelVars, taskVars,
                   updVars, att_stored, att_delivered, cfgVars, reqVars>>
    /\ UNCHANGED fnVars
    /\ UNCHANGED pxVars
    /\ UNCHANGED chVars
    /\ UNCHANGED gmVars
    /\ UNCHANGED selVars
    /\ UNCHANGED lateVars

\* bot.py:958  bot.send_message raises inside the inner except clause
SendGenericRaises ==
    /\ g_pc = "send_generic"
    /\ ToExceptionHandler
    /\ UNCHANGED <<g_pending, g_result, u_pc, u_dots, flow, cancelVars, taskVars,
                   uiVars, retryVars, cfgVars, reqVars>>
    /\ UNCHANGED fnVars
    /\ UNCHANGED pxVars
    /\ UNCHANGED chVars
    /\ UNCHANGED gmVars
    /\ UNCHANGED selVars
    /\ UNCHANGED lateVars

\* bot.py:974-975, 2105  str(e) is shown, the dialogue finished
ExcEditOk ==
    /\ g_pc = "exc_edit"
    /\ shown' = shown \cup {"exception_text"}
    /\ stored_strategy' = AfterFinish(stored_strategy)
    /\ g_pc' = "none"
    /\ WReturn
    /\ UNCHANGED <<wrapperFrame, g_pending, g_result, flow, cancelVars, taskVars,
                   updVars, att_stored, att_delivered, cfgVars, reqVars>>
    /\ UNCHANGED fnVars
    /\ UNCHANGED pxVars
    /\ UNCHANGED chVars
    /\ UNCHANGED gmVars
    /\ UNCHANGED selVars
    /\ UNCHANGED lateVars

\* bot.py:974, 2105  edit_text raises inside `except Exception`
ExcEditRaises ==
    /\ g_pc = "exc_edit"
    /\ \E e \in ApiExceptions : WRaise(e)
    /\ g_pc' = "none"
    /\ UNCHANGED <<wrapperFrame, g_pending, g_result, flow, cancelVars, taskVars,
                   updVars, uiVars, cfgVars, reqVars>>
    /\ UNCHANGED fnVars
    /\ UNCHANGED pxVars
    /\ UNCHANGED chVars
    /\ UNCHANGED gmVars
    /\ UNCHANGED selVars
    /\ UNCHANGED lateVars

\* bot.py:968-969, 2100  "generation was cancelled" is shown, the dialogue
\* finished, and the coroutine returns normally
CancelEditOk ==
    /\ g_pc = "cancel_edit"
    /\ shown' = shown \cup {"cancelled"}
    /\ stored_strategy' = AfterFinish(stored_strategy)
    /\ g_pc' = "none"
    /\ WReturn
    /\ UNCHANGED <<wrapperFrame, g_pending, g_result, flow, cancelVars, taskVars,
                   updVars, att_stored, att_delivered, cfgVars, reqVars>>
    /\ UNCHANGED fnVars
    /\ UNCHANGED pxVars
    /\ UNCHANGED chVars
    /\ UNCHANGED gmVars
    /\ UNCHANGED selVars
    /\ UNCHANGED lateVars

\* bot.py:968, 2100  edit_text raises inside `except asyncio.CancelledError`
CancelEditRaises ==
    /\ g_pc = "cancel_edit"
    /\ \E e \in ApiExceptions : WRaise(e)
    /\ g_pc' = "none"
    /\ UNCHANGED <<wrapperFrame, g_pending, g_result, flow, cancelVars, taskVars,
                   updVars, uiVars, cfgVars, reqVars>>
    /\ UNCHANGED fnVars
    /\ UNCHANGED pxVars
    /\ UNCHANGED chVars
    /\ UNCHANGED gmVars
    /\ UNCHANGED selVars
    /\ UNCHANGED lateVars

\* ---- cancellation ----
\* mutant: the await shields the generation task from the cancellation
AwaitShieldsTask(running) == FALSE

\* bot.py:890, 2065  `await generation_task`: cancelling the awaiting
\* coroutine cancels the task it waits for, if that task is not over
AwaitPropagatesCancel(running) == running

\* a CancelledError is thrown into the flow's coroutine at its await
DeliverCancel(byTimeout) ==
    CASE g_pc \in PreTryPoints \cup HandlerPoints ->
            \* not inside the try block: the error leaves the coroutine
            /\ WEscape(byTimeout)
            /\ g_pc' = "none"
            /\ UNCHANGED <<wrapperFrame, g_pending, midflight, t_cancel_req,
                           u_cancel_req>>
      [] g_pc = "await_gen" ->
            /\ g_pending' = TRUE
            /\ t_cancel_req' =
                  (t_cancel_req \/
                   AwaitPropagatesCancel(t_pc \in {"created", "analyze", "generate"}))
            /\ midflight' = (t_pc \in {"created", "analyze", "generate"})
            /\ UNCHANGED <<retryVars, g_pc, u_cancel_req>>
      [] OTHER ->
            \* inside the try block: `except asyncio.CancelledError`
            /\ u_cancel_req' = CancelInCancelledHandler(u_cancel_req)
            /\ g_pc' = "cancel_edit"
            /\ UNCHANGED <<retryVars, g_pending, midflight, t_cancel_req>>

\* bot.py:965-968, 2097-2100  `await generation_task` raises CancelledError
\* once the task is over: `except asyncio.CancelledError`
AwaitGenCancelled ==
    /\ g_pc = "await_gen"
    /\ g_pending
    /\ t_pc \in {"done", "cancelled"}
    /\ g_pending' = FALSE
    /\ u_cancel_req' = CancelInCancelledHandler(u_cancel_req)
    /\ g_pc' = "cancel_edit"
    /\ UNCHANGED <<g_result, u_pc, u_dots, flow, cancelVars, taskVars, uiVars,
                   retryVars, cfgVars, reqVars>>
    /\ UNCHANGED fnVars
    /\ UNCHANGED pxVars
    /\ UNCHANGED chVars
    /\ UNCHANGED gmVars
    /\ UNCHANGED selVars
    /\ UNCHANGED lateVars

\* bot.py:91  the deadline of asyncio.timeout(timeout) passes while the
\* wrapped generate_strategy is suspended
TimeoutFires ==
    /\ flow = "strategy"
    /\ wpc = "call"
    /\ g_pc \in AwaitPoints
    /\ ~g_pending
    /\ ~expired
    /\ ~ext_cancelled
    /\ expired' = TRUE
    /\ DeliverCancel(TRUE)
    /\ UNCHANGED <<g_result, ext_cancelled, t_pc, t_analysis, t_result, u_pc, u_dots,
                   flow, uiVars, cfgVars, reqVars>>
    /\ UNCHANGED fnVars
    /\ UNCHANGED pxVars
    /\ UNCHANGED chVars
    /\ UNCHANGED gmVars
    /\ UNCHANGED selVars
    /\ UNCHANGED lateVars

\* the task running the flow is cancelled from outside while the flow is
\* suspended
ExternalCancel ==
    /\ wpc = "call"
    /\ g_pc \in AwaitPoints
    /\ ~g_pending
    /\ ~expired
    /\ ~ext_cancelled
    /\ ext_cancelled' = TRUE
    /\ DeliverCancel(FALSE)
    /\ UNCHANGED <<g_result, expired, t_pc, t_analysis, t_result, u_pc, u_dots,
                   flow, uiVars, cfgVars, reqVars>>
    /\ UNCHANGED fnVars
    /\ UNCHANGED pxVars
    /\ UNCHANGED chVars
    /\ UNCHANGED gmVars
    /\ UNCHANGED selVars
    /\ UNCHANGED lateVars

\* the task is cancelled from outside during the backoff sleep of the
\* wrapper (bot.py:107)
ExternalCancelInSleep ==
    /\ wpc = "sleep"
    /\ ~ext_cancelled
    /\ ext_cancelled' = TRUE
    /\ wpc' = "cancelled"
    /\ UNCHANGED <<helper, max_retries, retry_delay, attempt, current_delay,
                   last_exception, sleeps, calls, last_outcome, raised>>
    /\ UNCHANGED <<flow, bodyVars, expired, midflight, taskVars, updVars, uiVars,
                   cfgVars, reqVars>>
    /\ UNCHANGED fnVars
    /\ UNCHANGED pxVars
    /\ UNCHANGED chVars
    /\ UNCHANGED gmVars
    /\ UNCHANGED selVars
    /\ UNCHANGED lateVars

InitFlow(f) ==
    /\ flow = f
    /\ g_pc = "none"
    /\ g_pending = FALSE
    /\ g_result = NoResult
    /\ expired = FALSE
    /\ ext_cancelled = FALSE
    /\ midflight = FALSE
    /\ t_pc = "none"
    /\ t_cancel_req = FALSE
    /\ t_analysis = NoResult
    /\ t_result = NoResult
    /\ u_pc = "none"
    /\ u_cancel_req = FALSE
    /\ u_dots = 0
    /\ stored_strategy = (f = "slogans")
    /\ shown = {}
    /\ att_stored = FALSE
    /\ att_delivered = FALSE

(***************************************************************************)
(* Part 4.  The text functions of AIManager: what the public operations    *)
(* make of the value of _make_request, and the extraction of slogans and   *)
(* steps from a response.                                                  *)
(*                                                                         *)
(* A text is the concatenation of its tokens; "\n" and " " are tokens of   *)
(* their own, so that lines and blank space can be told apart.             *)
(***************************************************************************)
\* longest response text explored for slogan extraction, in tokens
MaxSloganTokens == 4
\* longest response text explored for step extraction, in tokens
MaxStepTokens == 5
MaxTimelineTokens == 5

\* ai_utils.py:363  len(line) < 100
SloganLimit == 100
\* ai_utils.py:407-408  len(query) > 150, query[:150]
QueryLimit == 150

\* characters str.strip() removes
Whitespace == {" ", "\n"}
\* ai_utils.py:405  characters of response.strip(' "\'\n')
QueryStripChars == {" ", "\"", "'", "\n"}

\* str.lstrip / str.rstrip / str.strip over a set of characters
RECURSIVE LStrip(_, _)
LStrip(text, chars) ==
    IF text # <<>> /\ Head(text) \in chars
    THEN LStrip(Tail(text), chars)
    ELSE text

RECURSIVE RStrip(_, _)
RStrip(text, chars) ==
    IF text # <<>> /\ text[Len(text)] \in chars
    THEN RStrip(SubSeq(text, 1, Len(text) - 1), chars)
    ELSE text

Strip(text, chars) == RStrip(LStrip(text, chars), chars)

\* len(text): the characters of all tokens
RECURSIVE TextLen(_)
TextLen(text) ==
    IF text = <<>> THEN 0 ELSE Len(Head(text)) + TextLen(Tail(text))

\* text[:n]; a token of the model is kept or dropped whole
RECURSIVE Cut(_, _)
Cut(text, n) ==
    IF text = <<>> \/ Len(Head(text)) > n
    THEN <<>>
    ELSE <<Head(text)>> \o Cut(Tail(text), n - Len(Head(text)))

\* text.split('\n'): the lines of a text, at least one
RECURSIVE Split(_)
Split(text) ==
    IF \A i \in 1..Len(text) : text[i] # "\n"
    THEN <<text>>
    ELSE LET k == CHOOSE i \in 1..Len(text) :
                      text[i] = "\n" /\ \A j \in 1..(i - 1) : text[j] # "\n"
         IN <<SubSeq(text, 1, k - 1)>> \o Split(SubSeq(text, k + 1, Len(text)))

\* ---- slogans (ai_utils.py:238-265, 356-369) ----
\* a line of LongWord alone is exactly SloganLimit characters long
LongWord == "aaaaaaaaaaaaaaaaaaaaaaaaaaaaaaaaaaaaaaaaaaaaaaaaaaaaaaaaaaaaaaaaaaaaaaaaaaaaaaaaaaaaaaaaaaaaaaaaaaaa"

\* tokens made of the characters of lstrip('0123456789.- *>') only
MarkerTokens == {"1.", "-", " "}

\* ai_utils.py:365  line.lstrip('0123456789.- *>'): marker tokens go, and
\* so do the leading marker characters of the first token that stays
RECURSIVE LStripMarkers(_)
LStripMarkers(line) ==
    IF line = <<>> THEN <<>>
    ELSE IF Head(line) \in MarkerTokens THEN LStripMarkers(Tail(line))
    ELSE IF Head(line) = "3D" THEN <<"D">> \o Tail(line)
    ELSE line

\* mutant: lines that begin with '#' are taken for slogans too
IsHeadingNever(line) == FALSE

\* ai_utils.py:363  line.startswith('#')
IsHeading(line) == line # <<>> /\ Head(line) = "#"

\* ai_utils.py:361-367  the slogan one line contributes: <<>> if none
SloganOfLine(raw) ==
    LET line == Strip(raw, Whitespace) IN
    IF line # <<>> /\ ~IsHeading(line) /\ TextLen(line) < SloganLimit
    THEN Strip(LStripMarkers(line), Whitespace)
    ELSE <<>>

RECURSIVE SlogansOfLines(_)
SlogansOfLines(lines) ==
    IF lines = <<>> THEN <<>>
    ELSE (IF SloganOfLine(Head(lines)) # <<>>
          THEN <<SloganOfLine(Head(lines))>> ELSE <<>>)
         \o SlogansOfLines(Tail(lines))

\* ai_utils.py:356-369  AIManager._extract_slogans
extract_slogans(text) == SlogansOfLines(Split(Strip(text, Whitespace)))

\* ai_core.py:391  line.startswith(('•', '-', '*', '1.', ... '5.'))
StartsWithMarker(line) == line # <<>> /\ Head(line) \in {"-", "1."}

\* ai_core.py:389-392  the slogans of the lines: a line that is not blank
\* and does not start with a marker, as it is
RECURSIVE CoreSlogansOfLines(_)
CoreSlogansOfLines(lines) ==
    IF lines = <<>> THEN <<>>
    ELSE LET line == Strip(Head(lines), Whitespace) IN
         (IF line # <<>> /\ ~StartsWithMarker(line) THEN <<line>> ELSE <<>>)
         \o CoreSlogansOfLines(Tail(lines))

\* ai_core.py:385-393  AIManager._extract_slogans of ai_core
extract_slogans_core(text) == CoreSlogansOfLines(Split(text))

\* mutant: the list is returned as extracted
SlogansOrResponseNoFallback(slogans, response) == slogans

\* ai_utils.py:261-265  `if not slogans: return [response]`
SlogansOrResponse(slogans, response) ==
    IF slogans = <<>> THEN <<response>> ELSE slogans

\* ai_utils.py:238-265  the list AIManager.generate_slogans returns for the
\* response of _make_request
generate_slogans_list(response) ==
    IF IsFailureText(response)
    THEN <<SlogansFailedText>>
    ELSE SlogansOrResponse(extract_slogans(response), response)

\* ---- steps (ai_utils.py:315-329) ----
\* tokens whose first character is a digit 1-9, and one that starts with 0
DigitTokens == {"1. First step", "2. Second step"}

\* mutant: a line that starts with 0 begins a step too
StartsStepAnyDigit(line) ==
    /\ Strip(line, Whitespace) # <<>>
    /\ Head(Strip(line, Whitespace)) \in DigitTokens \cup {"0. Zero"}

\* ai_utils.py:321  any(line.strip().lower().startswith(str(i)) for i in range(1, 10))
StartsStep(line) ==
    Strip(line, Whitespace) # <<>> /\ Head(Strip(line, Whitespace)) \in DigitTokens

\* ai_utils.py:320-328  the loop over the lines: steps so far, current_step
RECURSIVE StepsLoop(_, _, _)
StepsLoop(lines, steps, current_step) ==
    IF lines = <<>>
    THEN IF current_step # <<>>
         THEN Append(steps, Strip(current_step, Whitespace))
         ELSE steps
    ELSE IF StartsStep(Head(lines))
         THEN StepsLoop(Tail(lines),
                        IF current_step # <<>>
                        THEN Append(steps, Strip(current_step, Whitespace))
                        ELSE steps,
                        Strip(Head(lines), Whitespace))
         ELSE IF current_step # <<>>
              THEN StepsLoop(Tail(lines), steps,
                             current_step \o <<" ">> \o Strip(Head(lines), Whitespace))
              ELSE StepsLoop(Tail(lines), steps, current_step)

\* ai_utils.py:315-329  AIManager._extract_steps
extract_steps(text) == StepsLoop(Split(text), <<>>, <<>>)

\* ---- timeline (ai_utils.py:331-345) ----
\* ai_utils.py:337  `keyword in line.lower()` for one of the five keywords,
\* on the tokens of the model: "Etap 1" holds 'etap', "NEDELYA 2" holds
\* 'nedelya' once it is lower-cased
TokenHasKeyword(token) == token \in {"Etap 1", "NEDELYA 2"}

\* mutant: the keywords are looked for without lower-casing the line
HasKeywordCaseSensitive(line) == \E i \in 1..Len(line) : line[i] = "Etap 1"

\* ai_utils.py:337  any(keyword in line.lower() for keyword in [...])
HasKeyword(line) == \E i \in 1..Len(line) : TokenHasKeyword(line[i])

\* the empty dict current_period starts as (ai_utils.py:335)
NoPeriod == [period |-> <<>>, actions |-> <<>>, empty |-> TRUE]

\* ai_utils.py:336-344  the loop over the lines and the append after it
RECURSIVE TimelineLoop(_, _, _)
TimelineLoop(lines, timeline, current_period) ==
    IF lines = <<>>
    THEN IF ~current_period.empty
         THEN Append(timeline, [period |-> current_period.period,
                                actions |-> current_period.actions])
         ELSE timeline
    ELSE IF HasKeyword(Head(lines))
         THEN TimelineLoop(Tail(lines),
                           IF ~current_period.empty
                           THEN Append(timeline,
                                       [period |-> current_period.period,
                                        actions |-> current_period.actions])
                           ELSE timeline,
                           [period |-> Strip(Head(lines), Whitespace),
                            actions |-> <<>>, empty |-> FALSE])
         ELSE IF ~current_period.empty /\ Strip(Head(lines), Whitespace) # <<>>
         THEN TimelineLoop(Tail(lines), timeline,
                           [current_period EXCEPT
                               !.actions = Append(@, Strip(Head(lines), Whitespace))])
         ELSE TimelineLoop(Tail(lines), timeline, current_period)

\* ai_utils.py:331-345  AIManager._extract_timeline
extract_timeline(text) == TimelineLoop(Split(text), <<>>, NoPeriod)

\* ---- search query and article analysis (ai_utils.py:371-457) ----
\* ai_utils.py:403-410  AIManager.generate_search_query on the response
generate_search_query(response) ==
    LET query == Strip(response, QueryStripChars) IN
    IF TextLen(query) > QueryLimit THEN Cut(query, QueryLimit) ELSE query

\* ai_utils.py:452-454  AIManager.analyze_article_for_channel on the response
analyze_article_for_channel(response) == response

\* ---- supplementary context in the prompts ----
\* ai_utils.py:154, 206  max_content_length = 2000
ContextBudget == 2000
\* ai_utils.py:437  content[:1500]
ArticleFragmentLimit == 1500

\* ai_utils.py:437, 155, 207, 213  the marker put after a cut text
CutMarker == "..."

\* ai_utils.py:155-156, 207-208, 212-213
\*   if len(content) > max_content_length:
\*       content = content[:max_content_length] + "..."
CutToBudget(content) ==
    IF TextLen(content) > ContextBudget
    THEN Cut(content, ContextBudget) \o <<CutMarker>>
    ELSE content

\* the functions that put an article body or a channel digest in a prompt
PromptBuilders ==
    {"generate_strategy_with_article", "generate_strategy_with_channel",
     "analyze_article_for_channel"}

\* the context arguments of a builder
ContextSlots(builder) ==
    IF builder = "generate_strategy_with_channel"
    THEN {"channel_content", "article_content"}
    ELSE {"article_content"}

\* ai_utils.py:211  `if article_title and article_content:` the article of
\* generate_strategy_with_channel enters the prompt only with a title
Interpolated(builder, slot, titled, content) ==
    (builder = "generate_strategy_with_channel" /\ slot = "article_content")
        => (titled /\ content # <<>>)

\* the text that stands in the prompt for the context `content`:
\* ai_utils.py:153-160 (generate_strategy_with_article), 205-218
\* (generate_strategy_with_channel), 437 (analyze_article_for_channel:
\* f"{content[:1500]}...")
ContextInPrompt(builder, slot, titled, content) ==
    IF builder = "analyze_article_for_channel"
    THEN Cut(content, ArticleFragmentLimit) \o <<CutMarker>>
    ELSE IF Interpolated(builder, slot, titled, content)
         THEN CutToBudget(content)
         ELSE <<>>

\* context texts: n words of 100 characters, with or without one more
\* character
RECURSIVE LongWords(_)
LongWords(n) == IF n = 0 THEN <<>> ELSE <<LongWord>> \o LongWords(n - 1)

ContextTexts ==
    {LongWords(n) \o tail : n \in {0, 1, 15, 16, 20, 21}, tail \in {<<>>, <<"a">>}}

\* ---- calls of the functions ----
PublicOperations ==
    {"analyze_situation", "generate_strategy", "generate_slogans",
     "generate_search_query", "analyze_article_for_channel"}

\* the value a public operation returns: a dict, a list of texts or a text
PublicResult(op, response) ==
    CASE op = "analyze_situation" ->
            [dict |-> analyze_situation(response), list |-> <<>>, text |-> <<>>]
      [] op = "generate_strategy" ->
            [dict |-> generate_strategy(response, NoResult), list |-> <<>>, text |-> <<>>]
      [] op = "generate_slogans" ->
            [dict |-> NoResult, list |-> generate_slogans_list(response), text |-> <<>>]
      [] op = "generate_search_query" ->
            [dict |-> NoResult, list |-> <<>>, text |-> generate_search_query(response)]
      [] OTHER ->
            [dict |-> NoResult, list |-> <<>>, text |-> analyze_article_for_channel(response)]

\* a public operation runs: one _make_request whose streaming call delivers
\* so and whose buffered call, if made, delivers bo
PublicOperation ==
    /\ fn_name = "none"
    /\ \E op \in PublicOperations, so \in StreamOutcomes, bo \in BufferedOutcomes :
        /\ fn_name' = op
        /\ fn_input' = [stream |-> so, buffered |-> bo, response |-> MakeRequest(so, bo)]
        /\ fn_output' = PublicResult(op, MakeRequest(so, bo))
    /\ UNCHANGED <<retryVars, cfgVars, reqVars, genVars>>
    /\ UNCHANGED pxVars
    /\ UNCHANGED chVars
    /\ UNCHANGED gmVars
    /\ UNCHANGED selVars
    /\ UNCHANGED lateVars

SloganTokens == {" ", "\n", "#", "-", "1.", "3D", "Vote", LongWord}

SloganTexts == UNION {[1..n -> SloganTokens] : n \in 0..MaxSloganTokens}

\* ai_utils.py:238-265  generate_slogans on a response of _make_request
GenerateSlogans ==
    /\ fn_name = "none"
    /\ \E response \in SloganTexts \cup {EmptyResponseText} :
        /\ fn_name' = "generate_slogans_list"
        /\ fn_input' = response
        /\ fn_output' = generate_slogans_list(response)
    /\ UNCHANGED <<retryVars, cfgVars, reqVars, genVars>>
    /\ UNCHANGED pxVars
    /\ UNCHANGED chVars
    /\ UNCHANGED gmVars
    /\ UNCHANGED selVars
    /\ UNCHANGED lateVars

\* the lines "1. Vote now", "- Act today", ""
SloganExample == <<"1.", " ", "Vote now", "\n", "-", " ", "Act today", "\n">>

\* the two implementations of _extract_slogans
Implementations == {"ai_utils", "ai_core"}

\* ai_utils.py:356-369, ai_core.py:385-393  _extract_slogans on a text
ExtractSlogans ==
    /\ fn_name = "none"
    /\ \E impl \in Implementations, text \in SloganTexts \cup {SloganExample} :
        /\ fn_name' = "_extract_slogans"
        /\ fn_input' = [impl |-> impl, text |-> text]
        /\ fn_output' = IF impl = "ai_utils" THEN extract_slogans(text)
                        ELSE extract_slogans_core(text)
    /\ UNCHANGED <<retryVars, cfgVars, reqVars, genVars>>
    /\ UNCHANGED pxVars
    /\ UNCHANGED chVars
    /\ UNCHANGED gmVars
    /\ UNCHANGED selVars
    /\ UNCHANGED lateVars

StepTokens ==
    {"1. First step", "2. Second step", "0. Zero", "continued detail", "\n", " "}

StepTexts == UNION {[1..n -> StepTokens] : n \in 0..MaxStepTokens}

\* ai_utils.py:315-329  _extract_steps on a text
ExtractSteps ==
    /\ fn_name = "none"
    /\ \E text \in StepTexts :
        /\ fn_name' = "_extract_steps"
        /\ fn_input' = text
        /\ fn_output' = extract_steps(text)
    /\ UNCHANGED <<retryVars, cfgVars, reqVars, genVars>>
    /\ UNCHANGED pxVars
    /\ UNCHANGED chVars
    /\ UNCHANGED gmVars
    /\ UNCHANGED selVars
    /\ UNCHANGED lateVars

(***************************************************************************)
(* Part 5.  ProxyManager: acquisition and verification of a proxy.         *)
(***************************************************************************)
\* proxy_manager.py:22  self.max_retries = 3
ProxyMaxRetries == 3

\* the proxies the list sources can deliver
ProxyPool == {"proxy1", "proxy2"}

\* proxy_manager.py:11-23  ProxyManager.__init__
InitProxy ==
    /\ proxy_list = {}
    /\ current_proxy = "None"
    /\ px_pc = "idle"
    /\ px_entry = "none"
    /\ px_attempt = 0
    /\ px_checked = {}
    /\ px_before = "None"
    /\ px_ret = "None"

\* what a probe (test_proxy, test_g4f_with_proxy) can meet: an answer with
\* status 200 / a non-empty response, another answer, or an exception
ProbeOutcomes == {"ok", "bad", "raises"}

\* mutant: an exception of the probe leaves the method
ProbeEscapesOnError(outcome) == outcome = "raises"

\* proxy_manager.py:54-56, 89-91  `except Exception: return False`: no
\* exception of a probe leaves test_proxy / test_g4f_with_proxy
ProbeEscapes(outcome) == FALSE

\* mutant: a proxy is taken whatever the probe says
ProbePassedAlways(outcome) == TRUE

\* proxy_manager.py:53, 88  return response.status == 200 / bool(response)
ProbePassed(outcome) == outcome = "ok"

\* proxy_manager.py:82-88  the proxies that answered a g4f request of this
\* call, with `proxy` after a probe that ended as `outcome`
Checked(checked, proxy, outcome) ==
    IF outcome = "ok" THEN checked \cup {proxy} ELSE checked

\* proxy_manager.py:25-41  fetch_proxies: the proxies of the sources that
\* answered; a source that fails is logged and skipped
FetchResults == SUBSET ProxyPool

\* proxy_manager.py:108-110  ensure_working_proxy is called
EnsureStart ==
    /\ px_pc = "idle"
    /\ px_entry' = "ensure_working_proxy"
    /\ px_before' = current_proxy
    /\ px_checked' = {}
    /\ px_attempt' = 0
    /\ px_ret' = "None"
    /\ px_pc' = IF current_proxy = "None" THEN "round" ELSE "recheck"
    /\ UNCHANGED <<proxy_list, current_proxy>>
    /\ UNCHANGED <<retryVars, cfgVars, reqVars, genVars, fnVars>>
    /\ UNCHANGED chVars
    /\ UNCHANGED gmVars
    /\ UNCHANGED selVars
    /\ UNCHANGED lateVars

\* proxy_manager.py:93-95  get_working_g4f_proxy is called directly
GetWorkingStart ==
    /\ px_pc = "idle"
    /\ px_entry' = "get_working_g4f_proxy"
    /\ px_before' = current_proxy
    /\ px_checked' = {}
    /\ px_attempt' = 0
    /\ px_ret' = "None"
    /\ px_pc' = "round"
    /\ UNCHANGED <<proxy_list, current_proxy>>
    /\ UNCHANGED <<retryVars, cfgVars, reqVars, genVars, fnVars>>
    /\ UNCHANGED chVars
    /\ UNCHANGED gmVars
    /\ UNCHANGED selVars
    /\ UNCHANGED lateVars

\* proxy_manager.py:110, 112  the stored proxy is probed again: it is
\* returned if it passes, a new one is looked for if it does not
RecheckCurrent ==
    /\ px_pc = "recheck"
    /\ \E outcome \in ProbeOutcomes :
        /\ px_checked' = Checked(px_checked, current_proxy, outcome)
        /\ IF ProbeEscapes(outcome)
           THEN /\ px_pc' = "raised"
                /\ UNCHANGED px_ret
           ELSE IF ProbePassed(outcome)
           THEN /\ px_ret' = current_proxy
                /\ px_pc' = "returned"
           ELSE /\ px_pc' = "round"
                /\ UNCHANGED px_ret
    /\ UNCHANGED <<proxy_list, current_proxy, px_entry, px_attempt, px_before>>
    /\ UNCHANGED <<retryVars, cfgVars, reqVars, genVars, fnVars>>
    /\ UNCHANGED chVars
    /\ UNCHANGED gmVars
    /\ UNCHANGED selVars
    /\ UNCHANGED lateVars

\* proxy_manager.py:58-72  get_working_proxy over the pool `list`: the first
\* proxy of the shuffled list that passes test_proxy, or None; any proxy of
\* the list can be that one
WorkingProxies(list) == list \cup {"None"}

\* proxy_manager.py:95-100 with 58-72  one probing round: the pool is
\* fetched if it is empty, get_working_proxy picks a proxy, the proxy is
\* probed through g4f; a proxy that passes is stored and returned
ProbeRound ==
    /\ px_pc = "round"
    /\ px_attempt < ProxyMaxRetries
    /\ \E fetched \in FetchResults, outcome \in ProbeOutcomes :
        /\ proxy_list' = IF proxy_list = {} THEN fetched ELSE proxy_list
        /\ \E proxy \in WorkingProxies(proxy_list') :
            /\ px_checked' = IF proxy = "None" THEN px_checked
                             ELSE Checked(px_checked, proxy, outcome)
            /\ IF proxy # "None" /\ ProbeEscapes(outcome)
               THEN /\ px_pc' = "raised"
                    /\ UNCHANGED <<current_proxy, px_attempt, px_ret>>
               ELSE IF proxy # "None" /\ ProbePassed(outcome)
               THEN /\ current_proxy' = proxy
                    /\ px_ret' = proxy
                    /\ px_pc' = "returned"
                    /\ UNCHANGED px_attempt
               ELSE /\ px_attempt' = px_attempt + 1
                    /\ UNCHANGED <<current_proxy, px_pc, px_ret>>
    /\ UNCHANGED <<px_entry, px_before>>
    /\ UNCHANGED <<retryVars, cfgVars, reqVars, genVars, fnVars>>
    /\ UNCHANGED chVars
    /\ UNCHANGED gmVars
    /\ UNCHANGED selVars
    /\ UNCHANGED lateVars

\* proxy_manager.py:102, 111-112  the rounds are used up:
\* get_working_g4f_proxy returns None, which ensure_working_proxy stores
RoundsExhausted ==
    /\ px_pc = "round"
    /\ px_attempt >= ProxyMaxRetries
    /\ px_ret' = "None"
    /\ current_proxy' = IF px_entry = "ensure_working_proxy" THEN "None"
                        ELSE current_proxy
    /\ px_pc' = "returned"
    /\ UNCHANGED <<proxy_list, px_entry, px_attempt, px_checked, px_before>>
    /\ UNCHANGED <<retryVars, cfgVars, reqVars, genVars, fnVars>>
    /\ UNCHANGED chVars
    /\ UNCHANGED gmVars
    /\ UNCHANGED selVars
    /\ UNCHANGED lateVars

\* the call is over; the next one can begin
ProxyCallReturns ==
    /\ px_pc = "returned"
    /\ px_pc' = "idle"
    /\ UNCHANGED <<proxy_list, current_proxy, px_entry, px_attempt, px_checked,
                   px_before, px_ret>>
    /\ UNCHANGED <<retryVars, cfgVars, reqVars, genVars, fnVars>>
    /\ UNCHANGED chVars
    /\ UNCHANGED gmVars
    /\ UNCHANGED selVars
    /\ UNCHANGED lateVars

(***************************************************************************)
(* Part 6.  WebAnalyzer.analyze_channel: the analysis of a channel with    *)
(* its retry loop.                                                         *)
(***************************************************************************)
\* services.py:135  max_retries = 5
ChannelMaxRetries == 5
\* services.py:136  retry_delay = 2.0
ChannelRetryDelay == 2
\* services.py:147  timeout=120.0 of asyncio.wait_for, in seconds
ChannelTimeout == 120

NoChannelResult == [status |-> "none", message |-> "none"]

InitChannel ==
    /\ ch_pc = "idle"
    /\ ch_attempt = 0
    /\ ch_retry_delay = Rat(ChannelRetryDelay, 1)
    /\ ch_sleeps = <<>>
    /\ ch_outcomes = <<>>
    /\ ch_result = NoChannelResult

\* what one pass through the try block (services.py:139-166) can meet:
\*   "success"          the analysis came back without an "error" key
\*   "error_dict"       the analysis came back with an "error" key
\*   "timeout"          wait_for gave up after ChannelTimeout seconds
\*                      (asyncio.TimeoutError)
\*   "connection_error" connect, the analysis or get_channel_info raised
\*                      ConnectionError
\*   "exception"        any other Exception
ChannelOutcomes ==
    {"success", "error_dict", "timeout", "connection_error", "exception"}

\* services.py:168, 176  the two retrying except clauses
ChannelRetryable(outcome) == outcome \in {"timeout", "connection_error"}

\* mutant: only the network-class exceptions are caught
ChannelCaughtNetworkOnly(outcome) == outcome # "exception"

\* services.py:168-186  the except clauses end with `except Exception`:
\* every exception of the try block is caught
ChannelCaught(outcome) == TRUE

\* mutant: the loop does not know its last attempt
IsLastAttemptNever(n) == FALSE

\* services.py:170, 178  if attempt == max_retries - 1
IsLastAttempt(n) == n = ChannelMaxRetries - 1

\* services.py:151-153, 158-164, 171, 179, 186  the dictionary returned
\* after an attempt that met `outcome`
ChannelResult(outcome) ==
    CASE outcome = "success"          -> [status |-> "success", message |-> "none"]
      [] outcome = "error_dict"       -> [status |-> "error", message |-> "analysis error"]
      [] outcome = "timeout"          -> [status |-> "error", message |-> "timeout"]
      [] outcome = "connection_error" -> [status |-> "error", message |-> "network error"]
      [] OTHER                        -> [status |-> "error", message |-> "exception text"]

\* services.py:173, 181  retry_delay *= 1.5
ChannelNextDelay(d) == Rat(d.num * 3, d.den * 2)

\* services.py:133-138  analyze_channel is called
AnalyzeChannelStart ==
    /\ ch_pc = "idle"
    /\ ch_pc' = "attempt"
    /\ ch_attempt' = 0
    /\ ch_retry_delay' = Rat(ChannelRetryDelay, 1)
    /\ ch_sleeps' = <<>>
    /\ ch_outcomes' = <<>>
    /\ ch_result' = NoChannelResult
    /\ UNCHANGED <<retryVars, cfgVars, reqVars, genVars, fnVars, pxVars>>
    /\ UNCHANGED gmVars
    /\ UNCHANGED selVars
    /\ UNCHANGED lateVars

\* services.py:138-192  one attempt: the try block, the except clause that
\* fits, and the finally clause (an error of disconnect is caught there,
\* 188-192)
ChannelAttempt ==
    /\ ch_pc = "attempt"
    /\ ch_attempt < ChannelMaxRetries
    /\ \E outcome \in ChannelOutcomes :
        /\ ch_outcomes' = Append(ch_outcomes, outcome)
        /\ IF ~ChannelCaught(outcome)
           THEN /\ ch_pc' = "raised"
                /\ UNCHANGED ch_result
           ELSE IF ChannelRetryable(outcome) /\ ~IsLastAttempt(ch_attempt)
           THEN /\ ch_pc' = "sleep"
                /\ UNCHANGED ch_result
           ELSE /\ ch_pc' = "returned"
                /\ ch_result' = ChannelResult(outcome)
    /\ UNCHANGED <<ch_attempt, ch_retry_delay, ch_sleeps>>
    /\ UNCHANGED <<retryVars, cfgVars, reqVars, genVars, fnVars, pxVars>>
    /\ UNCHANGED gmVars
    /\ UNCHANGED selVars
    /\ UNCHANGED lateVars

\* services.py:173-174, 181-182  await asyncio.sleep(retry_delay);
\* retry_delay *= 1.5; then the finally clause and the next attempt
ChannelSleep ==
    /\ ch_pc = "sleep"
    /\ ch_sleeps' = Append(ch_sleeps, ch_retry_delay)
    /\ ch_retry_delay' = ChannelNextDelay(ch_retry_delay)
    /\ ch_attempt' = ch_attempt + 1
    /\ ch_pc' = "attempt"
    /\ UNCHANGED <<ch_outcomes, ch_result>>
    /\ UNCHANGED <<retryVars, cfgVars, reqVars, genVars, fnVars, pxVars>>
    /\ UNCHANGED gmVars
    /\ UNCHANGED selVars
    /\ UNCHANGED lateVars

\* the call is over; the next one can begin
AnalyzeChannelReturns ==
    /\ ch_pc = "returned"
    /\ ch_pc' = "idle"
    /\ UNCHANGED <<ch_attempt, ch_retry_delay, ch_sleeps, ch_outcomes, ch_result>>
    /\ UNCHANGED <<retryVars, cfgVars, reqVars, genVars, fnVars, pxVars>>
    /\ UNCHANGED gmVars
    /\ UNCHANGED selVars
    /\ UNCHANGED lateVars

(***************************************************************************)
(* Part 7.  TelegramAnalyzer.get_messages: the history of a channel is     *)
(* fetched in chunks.                                                      *)
(***************************************************************************)
\* telegram_client.py:133  max_retries = 4
MessagesMaxRetries == 4
\* telegram_client.py:135  chunk_size = 30
ChunkSize == 30

\* the limits a caller passes and the numbers of messages a channel holds
MessageLimits == {1, 30, 60, 100}
ChannelHistories == {0, 10, 30, 45, 60}

InitMessages ==
    /\ gm_pc = "idle"
    /\ gm_limit = 0
    /\ gm_remaining = 0
    /\ gm_older = 0
    /\ gm_attempt = 0
    /\ gm_got = 0

Min(a, b) == IF a < b THEN a ELSE b

\* telegram_client.py:148  current_chunk_size = min(remaining, chunk_size)
CurrentChunkSize == Min(gm_remaining, ChunkSize)

\* telegram_client.py:152-159  client.get_messages(entity, limit=n,
\* offset_date=d): the n newest messages older than d, or all that are left
ChunkLen == Min(CurrentChunkSize, gm_older)

\* telegram_client.py:137-148  the call begins: connection, entity, and the
\* first pass of `while remaining > 0`
GetMessagesStart ==
    /\ gm_pc = "idle"
    /\ \E limit \in MessageLimits, history \in ChannelHistories :
        /\ gm_limit' = limit
        /\ gm_remaining' = limit
        /\ gm_older' = history
    /\ gm_attempt' = 0
    /\ gm_got' = 0
    /\ gm_pc' = "fetch"
    /\ UNCHANGED <<retryVars, cfgVars, reqVars, genVars, fnVars, pxVars, chVars>>
    /\ UNCHANGED selVars
    /\ UNCHANGED lateVars

\* telegram_client.py:150-182  one attempt of a chunk that came back: an
\* empty chunk leaves the for loop at once (161-162); a chunk with messages
\* is taken over, and a short one sets remaining to 0 (175-177)
FetchChunk ==
    /\ gm_pc = "fetch"
    /\ gm_attempt < MessagesMaxRetries
    /\ IF ChunkLen = 0
       THEN UNCHANGED <<gm_remaining, gm_older, gm_got>>
       ELSE /\ gm_got' = gm_got + ChunkLen
            /\ gm_older' = gm_older - ChunkLen
            /\ gm_remaining' = IF ChunkLen < CurrentChunkSize
                               THEN 0
                               ELSE gm_remaining - ChunkLen
    /\ gm_pc' = "after_for"
    /\ UNCHANGED <<gm_limit, gm_attempt>>
    /\ UNCHANGED <<retryVars, cfgVars, reqVars, genVars, fnVars, pxVars, chVars>>
    /\ UNCHANGED selVars
    /\ UNCHANGED lateVars

\* telegram_client.py:184-192  the attempt ended with asyncio.TimeoutError
\* or ConnectionError: another attempt after a sleep, or the messages
\* fetched so far after the last attempt
FetchFails ==
    /\ gm_pc = "fetch"
    /\ gm_attempt < MessagesMaxRetries
    /\ IF gm_attempt < MessagesMaxRetries - 1
       THEN /\ gm_attempt' = gm_attempt + 1
            /\ UNCHANGED gm_pc
       ELSE /\ gm_pc' = "returned"
            /\ UNCHANGED gm_attempt
    /\ UNCHANGED <<gm_limit, gm_remaining, gm_older, gm_got>>
    /\ UNCHANGED <<retryVars, cfgVars, reqVars, genVars, fnVars, pxVars, chVars>>
    /\ UNCHANGED selVars
    /\ UNCHANGED lateVars

\* telegram_client.py:199-203  any other exception: `except Exception`
\* returns the messages fetched so far
FetchRaises ==
    /\ gm_pc = "fetch"
    /\ gm_pc' = "returned"
    /\ UNCHANGED <<gm_limit, gm_remaining, gm_older, gm_attempt, gm_got>>
    /\ UNCHANGED <<retryVars, cfgVars, reqVars, genVars, fnVars, pxVars, chVars>>
    /\ UNCHANGED selVars
    /\ UNCHANGED lateVars

\* telegram_client.py:194-197, 147  after the for loop: `if remaining ==
\* limit: break`, then the test of `while remaining > 0`
AfterChunk ==
    /\ gm_pc = "after_for"
    /\ IF gm_remaining = gm_limit \/ ~(gm_remaining > 0)
       THEN gm_pc' = "returned"
       ELSE gm_pc' = "fetch"
    /\ gm_attempt' = 0
    /\ UNCHANGED <<gm_limit, gm_remaining, gm_older, gm_got>>
    /\ UNCHANGED <<retryVars, cfgVars, reqVars, genVars, fnVars, pxVars, chVars>>
    /\ UNCHANGED selVars
    /\ UNCHANGED lateVars

\* the call is over; the next one can begin
GetMessagesReturns ==
    /\ gm_pc = "returned"
    /\ gm_pc' = "idle"
    /\ UNCHANGED <<gm_limit, gm_remaining, gm_older, gm_attempt, gm_got>>
    /\ UNCHANGED <<retryVars, cfgVars, reqVars, genVars, fnVars, pxVars, chVars>>
    /\ UNCHANGED selVars
    /\ UNCHANGED lateVars

(***************************************************************************)
(* Part 8.  The strategy dialogue of one user: the handlers, the states    *)
(* their filters accept and the keyboards they send (bot.py:180-204,       *)
(* 240-943, 1330-1363, 1501-1532, 1575-1656, 2028-2032).  A button is      *)
(* written as its callback data, with N for the id that follows a prefix.  *)
(***************************************************************************)
\* bot.py:180-204  the states of UserState that these handlers use
DialogueStates ==
    {"idle", "waiting_point_a", "waiting_point_b", "waiting_timeframe",
     "waiting_target_audience", "waiting_channel_choice",
     "waiting_channel_selection", "waiting_channel_period",
     "waiting_channel_keyword", "waiting_folder_selection",
     "waiting_channel_username", "waiting_folder_name",
     "waiting_article_choice", "waiting_article_url",
     "waiting_strategy_confirmation"}

\* the states set by the handlers of the strategy dialogue (bot.py:240-943)
StrategyStates == DialogueStates \ {"idle", "waiting_folder_name"}

\* bot.py:979-1026  the keys _generate_strategy_task reads with data[...]
StrategyInputs == {"point_a", "point_b", "timeframe", "target_audience"}

\* the state filter of the callback handler registered for `button`
\* (the decorators of bot.py); no handler is registered for the buttons of
\* the last arm
AcceptingStates(button) ==
    CASE button \in {"cancel_operation", "create_folder", "add_to_folder:N"}
            -> DialogueStates
      [] button = "add_channel_to_strategy" -> {"waiting_channel_choice"}
      [] button = "select_channel:N" -> {"waiting_channel_selection"}
      [] button = "period:N" -> {"waiting_channel_period"}
      [] button = "no_keyword" -> {"waiting_channel_keyword"}
      [] button = "add_new_channel"
            -> {"waiting_channel_choice", "waiting_channel_selection"}
      [] button = "add_to_folder_strategy:N" -> {"waiting_folder_selection"}
      [] button = "continue_without_channel"
            -> {"waiting_channel_choice", "waiting_channel_selection",
                "waiting_channel_period", "waiting_channel_keyword"}
      [] button = "cancel_channel"
            -> {"waiting_channel_choice", "waiting_channel_selection",
                "waiting_channel_period", "waiting_channel_keyword",
                "waiting_channel_url", "waiting_folder_selection",
                "waiting_channel_username"}
      [] button \in {"add_article", "continue_without_article"}
            -> {"waiting_article_choice"}
      [] button = "cancel_article" -> {"waiting_article_url"}
      [] button = "cancel_add_channel" -> {"waiting_channel_username"}
      [] button \in {"confirm_strategy", "refine_strategy", "cancel_strategy",
                     "goto_main_menu", "new_strategy"}
            -> {}

\* bot.py:180-204  no dialogue has begun
InitDialogue ==
    /\ dlg_state = "idle"
    /\ dlg_data = {}
    /\ dlg_keyboards = {}
    /\ dlg_shown = {}
    /\ dlg_origin = "none"
    /\ dlg_task_data = {"none"}


\* a message with the inline keyboard `keyboard` is sent ({}: no keyboard);
\* a button without a handler need not be remembered, pressing it does
\* nothing
Send(keyboard) ==
    /\ dlg_shown' = keyboard
    /\ dlg_keyboards' = dlg_keyboards \cup
          {button \in keyboard : AcceptingStates(button) # {}}

\* the user presses a button of some keyboard sent so far and the filter of
\* its handler accepts the state
Pressed(button) ==
    /\ button \in dlg_keyboards
    /\ dlg_state \in AcceptingStates(button)

\* FSMContext.finish(): the state and the data are reset
Finish ==
    /\ dlg_state' = "idle"
    /\ dlg_data' = {}

\* bot.py:749-767  ask_about_article
AskAboutArticle ==
    /\ Send({"add_article", "continue_without_article", "cancel_strategy"})
    /\ dlg_state' = "waiting_article_choice"

\* bot.py:977-1037  what _generate_strategy_task can return for `data`:
\* data['point_a'] and the other inputs raise KeyError when missing
GenerationOutcomes(data) ==
    IF StrategyInputs \subseteq data THEN {"sent", "send_failed", "error"}
    ELSE {"error"}

\* bot.py:873-975  generate_strategy on the data `data`
GenerateStrategyWith(data) ==
    /\ dlg_task_data' = data \cap StrategyInputs
    /\ \E outcome \in GenerationOutcomes(data) :
          IF outcome = "sent"
          THEN /\ dlg_data' = data
               /\ Send({"confirm_strategy", "refine_strategy",
                        "cancel_strategy"})
               /\ dlg_state' = "waiting_strategy_confirmation"
          ELSE /\ Send({"goto_main_menu", "new_strategy"})
               /\ Finish

\* bot.py:240-259  cmd_new_strategy; a command handler has no state
\* argument, so its filter accepts only the state None
CmdNewStrategy ==
    /\ dlg_state = "idle"
    /\ Send({"cancel_operation"})
    /\ dlg_state' = "waiting_point_a"
    /\ UNCHANGED <<dlg_data, dlg_origin, dlg_task_data>>
    /\ UNCHANGED <<earlyVars, tgVars, slVars, dbVars>>

\* bot.py:262-313  process_point_a, process_point_b, process_timeframe
ProcessInput(state, key, next) ==
    /\ dlg_state = state
    /\ dlg_data' = dlg_data \cup {key}
    /\ Send({"cancel_operation"})
    /\ dlg_state' = next
    /\ UNCHANGED <<dlg_origin, dlg_task_data>>
    /\ UNCHANGED <<earlyVars, tgVars, slVars, dbVars>>

\* bot.py:262-277
ProcessPointA == ProcessInput("waiting_point_a", "point_a", "waiting_point_b")

\* bot.py:280-295
ProcessPointB ==
    ProcessInput("waiting_point_b", "point_b", "waiting_timeframe")

\* bot.py:298-313
ProcessTimeframe ==
    ProcessInput("waiting_timeframe", "timeframe", "waiting_target_audience")

\* bot.py:316-338  process_target_audience
ProcessTargetAudience ==
    /\ dlg_state = "waiting_target_audience"
    /\ dlg_data' = dlg_data \cup {"target_audience"}
    /\ Send({"add_channel_to_strategy", "continue_without_channel",
             "cancel_strategy"})
    /\ dlg_state' = "waiting_channel_choice"
    /\ UNCHANGED <<dlg_origin, dlg_task_data>>
    /\ UNCHANGED <<earlyVars, tgVars, slVars, dbVars>>

\* bot.py:342-391  add_channel_to_strategy
AddChannelToStrategy ==
    /\ Pressed("add_channel_to_strategy")
    /\ \E channels \in BOOLEAN :
          IF ~channels
          THEN /\ Send({"add_new_channel", "continue_without_channel",
                        "cancel_strategy"})
               /\ UNCHANGED dlg_state
          ELSE /\ Send({"select_channel:N", "add_new_channel",
                        "continue_without_channel", "cancel_strategy"})
               /\ dlg_state' = "waiting_channel_selection"
    /\ UNCHANGED <<dlg_data, dlg_origin, dlg_task_data>>
    /\ UNCHANGED <<earlyVars, tgVars, slVars, dbVars>>

\* bot.py:394-438  select_channel
SelectChannel ==
    /\ Pressed("select_channel:N")
    /\ \E found \in BOOLEAN :
          IF ~found
          THEN /\ Send({})
               /\ UNCHANGED <<dlg_state, dlg_data>>
          ELSE /\ dlg_data' = dlg_data \cup {"selected_channel"}
               /\ Send({"period:N", "cancel_channel"})
               /\ dlg_state' = "waiting_channel_period"
    /\ UNCHANGED <<dlg_origin, dlg_task_data>>
    /\ UNCHANGED <<earlyVars, tgVars, slVars, dbVars>>

\* bot.py:441-467  process_channel_period
ProcessChannelPeriod ==
    /\ Pressed("period:N")
    /\ UNCHANGED dlg_data
    /\ Send({"no_keyword", "cancel_channel"})
    /\ dlg_state' = "waiting_channel_keyword"
    /\ UNCHANGED <<dlg_origin, dlg_task_data>>
    /\ UNCHANGED <<earlyVars, tgVars, slVars, dbVars>>

\* bot.py:485-494, 581-590  what the analysis of the selected channel gives:
\* without a selected channel selected_channel.get raises inside the try
AnalysisOutcomes ==
    IF "selected_channel" \in dlg_data THEN {"empty", "found", "failed"}
    ELSE {"failed"}

\* bot.py:470-557  process_channel_keyword
ProcessChannelKeyword ==
    /\ dlg_state = "waiting_channel_keyword"
    /\ \E short \in BOOLEAN :
          IF short
          THEN /\ Send({})
               /\ UNCHANGED <<dlg_state, dlg_data>>
          ELSE \E outcome \in AnalysisOutcomes :
                  CASE outcome = "empty" ->
                          /\ UNCHANGED dlg_data
                          /\ Send({"period:N", "continue_without_channel",
                                   "cancel_strategy"})
                          /\ UNCHANGED dlg_state
                    [] outcome = "found" ->
                          /\ UNCHANGED dlg_data
                          /\ AskAboutArticle
                    [] outcome = "failed" ->
                          /\ UNCHANGED dlg_data
                          /\ Send({"add_channel_to_strategy",
                                   "continue_without_channel",
                                   "cancel_strategy"})
                          /\ UNCHANGED dlg_state
    /\ UNCHANGED <<dlg_origin, dlg_task_data>>
    /\ UNCHANGED <<earlyVars, tgVars, slVars, dbVars>>

\* bot.py:560-653  process_no_keyword
ProcessNoKeyword ==
    /\ Pressed("no_keyword")
    /\ \E outcome \in AnalysisOutcomes :
          IF outcome = "found"
          THEN /\ UNCHANGED dlg_data
               /\ AskAboutArticle
          ELSE /\ UNCHANGED dlg_data
               /\ Send({"add_channel_to_strategy", "continue_without_channel",
                        "cancel_strategy"})
               /\ UNCHANGED dlg_state
    /\ UNCHANGED <<dlg_origin, dlg_task_data>>
    /\ UNCHANGED <<earlyVars, tgVars, slVars, dbVars>>

\* bot.py:656-702  add_new_channel_to_strategy
AddNewChannelToStrategy ==
    /\ Pressed("add_new_channel")
    /\ \E folders \in BOOLEAN :
          IF ~folders
          THEN /\ Send({"create_folder", "continue_without_channel",
                        "cancel_strategy"})
               /\ UNCHANGED dlg_state
          ELSE /\ Send({"add_to_folder_strategy:N", "cancel_channel"})
               /\ dlg_state' = "waiting_folder_selection"
    /\ UNCHANGED <<dlg_data, dlg_origin, dlg_task_data>>
    /\ UNCHANGED <<earlyVars, tgVars, slVars, dbVars>>

\* bot.py:705-729  add_to_folder_strategy
AddToFolderStrategy ==
    /\ Pressed("add_to_folder_strategy:N")
    /\ dlg_data' = dlg_data \cup {"folder_id"}
    /\ Send({"cancel_channel"})
    /\ dlg_state' = "waiting_channel_username"
    /\ dlg_origin' = dlg_state
    /\ UNCHANGED dlg_task_data
    /\ UNCHANGED <<earlyVars, tgVars, slVars, dbVars>>

\* bot.py:732-738  continue_without_channel
ContinueWithoutChannel ==
    /\ Pressed("continue_without_channel")
    /\ AskAboutArticle
    /\ UNCHANGED <<dlg_data, dlg_origin, dlg_task_data>>
    /\ UNCHANGED <<earlyVars, tgVars, slVars, dbVars>>

\* bot.py:741-747  cancel_channel
CancelChannel ==
    /\ Pressed("cancel_channel")
    /\ AskAboutArticle
    /\ UNCHANGED <<dlg_data, dlg_origin, dlg_task_data>>
    /\ UNCHANGED <<earlyVars, tgVars, slVars, dbVars>>

\* bot.py:770-790  add_article
AddArticle ==
    /\ Pressed("add_article")
    /\ Send({"cancel_article"})
    /\ dlg_state' = "waiting_article_url"
    /\ UNCHANGED <<dlg_data, dlg_origin, dlg_task_data>>
    /\ UNCHANGED <<earlyVars, tgVars, slVars, dbVars>>

\* bot.py:793-799  continue_without_article
ContinueWithoutArticle ==
    /\ Pressed("continue_without_article")
    /\ GenerateStrategyWith(dlg_data)
    /\ UNCHANGED dlg_origin
    /\ UNCHANGED <<earlyVars, tgVars, slVars, dbVars>>

\* bot.py:802-808  cancel_article
CancelArticle ==
    /\ Pressed("cancel_article")
    /\ GenerateStrategyWith(dlg_data)
    /\ UNCHANGED dlg_origin
    /\ UNCHANGED <<earlyVars, tgVars, slVars, dbVars>>

\* bot.py:811-870  process_article_url
ProcessArticleUrl ==
    /\ dlg_state = "waiting_article_url"
    /\ \E outcome \in {"not_url", "error", "fetched", "raised"} :
          CASE outcome = "not_url" ->
                  /\ Send({})
                  /\ UNCHANGED <<dlg_state, dlg_data, dlg_task_data>>
            [] outcome = "error" ->
                  /\ Send({"continue_without_article"})
                  /\ UNCHANGED <<dlg_state, dlg_data, dlg_task_data>>
            [] outcome = "fetched" ->
                  GenerateStrategyWith(dlg_data)
            [] outcome = "raised" ->
                  GenerateStrategyWith(dlg_data)
    /\ UNCHANGED dlg_origin
    /\ UNCHANGED <<earlyVars, tgVars, slVars, dbVars>>

\* bot.py:1330-1363  cmd_add_channel, as the command /add_channel
CmdAddChannel ==
    /\ dlg_state = "idle"
    /\ \E folders \in BOOLEAN :
          IF folders THEN Send({"add_to_folder:N"})
          ELSE Send({"create_folder"})
    /\ UNCHANGED <<dlg_state, dlg_data, dlg_origin, dlg_task_data>>
    /\ UNCHANGED <<earlyVars, tgVars, slVars, dbVars>>

\* bot.py:1501-1512  create_folder_callback
CreateFolderCallback ==
    /\ Pressed("create_folder")
    /\ Send({})
    /\ dlg_state' = "waiting_folder_name"
    /\ dlg_origin' = dlg_state
    /\ UNCHANGED <<dlg_data, dlg_task_data>>
    /\ UNCHANGED <<earlyVars, tgVars, slVars, dbVars>>

\* bot.py:1517-1521  process_folder_name on an empty name
FolderNameEmpty ==
    /\ dlg_state = "waiting_folder_name"
    /\ Send({})
    /\ UNCHANGED <<dlg_state, dlg_data, dlg_origin, dlg_task_data>>
    /\ UNCHANGED <<earlyVars, tgVars, slVars, dbVars>>

\* bot.py:1523-1532  process_folder_name on a name: the folder is created,
\* or the creation fails, and the state is finished
FolderNameCompleted ==
    /\ dlg_state = "waiting_folder_name"
    /\ Send({})
    /\ Finish
    /\ UNCHANGED <<dlg_origin, dlg_task_data>>
    /\ UNCHANGED <<earlyVars, tgVars, slVars, dbVars>>

\* bot.py:1514-1532  process_folder_name
ProcessFolderName == FolderNameEmpty \/ FolderNameCompleted

\* bot.py:1575-1598  add_to_folder_callback
AddToFolderCallback ==
    /\ Pressed("add_to_folder:N")
    /\ dlg_data' = dlg_data \cup {"folder_id"}
    /\ Send({"cancel_add_channel"})
    /\ dlg_state' = "waiting_channel_username"
    /\ dlg_origin' = dlg_state
    /\ UNCHANGED dlg_task_data
    /\ UNCHANGED <<earlyVars, tgVars, slVars, dbVars>>

\* bot.py:1603-1607  process_channel_username on an empty name
ChannelUsernameEmpty ==
    /\ dlg_state = "waiting_channel_username"
    /\ Send({})
    /\ UNCHANGED <<dlg_state, dlg_data, dlg_origin, dlg_task_data>>
    /\ UNCHANGED <<earlyVars, tgVars, slVars, dbVars>>

\* bot.py:1609-1643  process_channel_username on a name: without a folder id
\* an error is shown, otherwise the channel is added or the addition fails;
\* the state is finished on each path
ChannelUsernameCompleted ==
    /\ dlg_state = "waiting_channel_username"
    /\ Send({})
    /\ Finish
    /\ UNCHANGED <<dlg_origin, dlg_task_data>>
    /\ UNCHANGED <<earlyVars, tgVars, slVars, dbVars>>

\* bot.py:1600-1643  process_channel_username
ProcessChannelUsername == ChannelUsernameEmpty \/ ChannelUsernameCompleted

\* bot.py:1645-1656  cancel_add_channel
CancelAddChannel ==
    /\ Pressed("cancel_add_channel")
    /\ Send({})
    /\ Finish
    /\ UNCHANGED <<dlg_origin, dlg_task_data>>
    /\ UNCHANGED <<earlyVars, tgVars, slVars, dbVars>>

\* bot.py:2028-2032  cancel_operation
CancelOperation ==
    /\ Pressed("cancel_operation")
    /\ Send({})
    /\ Finish
    /\ UNCHANGED <<dlg_origin, dlg_task_data>>
    /\ UNCHANGED <<earlyVars, tgVars, slVars, dbVars>>

(***************************************************************************)
(* Part 9.  TelegramAnalyzer's client slot (telegram_client.py:14-98) and  *)
(* WebAnalyzer.analyze_channel around it (services.py:133-195).  A caller  *)
(* is one coroutine; it moves from one await to the next in one step.      *)
(***************************************************************************)
\* coroutines that call into the shared TelegramAnalyzer (bot.py:35-37)
Callers == {1, 2}

\* client objects alive together: the slot's and one awaited per caller
ClientIds == 1..3

\* telegram_client.py:22  self.max_reconnect_attempts
MaxReconnectAttempts == 3

\* telegram_client.py:15-23  __init__: no client; no call is running
InitClient ==
    /\ tg_client = 0
    /\ tg_status = [i \in ClientIds |-> "free"]
    /\ tc_op = [c \in Callers |-> "none"]
    /\ tc_pc = [c \in Callers |-> "idle"]
    /\ tc_ref = [c \in Callers |-> 0]
    /\ tc_attempt = [c \in Callers |-> 0]
    /\ tc_starts = [c \in Callers |-> 0]
    /\ tc_result = [c \in Callers |-> "none"]
    /\ tc_prev = [c \in Callers |-> <<"none", "none">>]
    /\ ac_attempt = [c \in Callers |-> 0]
    /\ ac_outcome = [c \in Callers |-> "return"]


\* the statuses with every object that neither the slot nor an await refers
\* to any more forgotten
Cleaned(status, slot, refs) ==
    [i \in ClientIds |->
        IF i = slot \/ \E c \in Callers : refs[c] = i THEN status[i]
        ELSE "free"]

\* TelegramClient('anon', ...): an object that no slot and no await refers to
NewClient ==
    CHOOSE i \in ClientIds :
        /\ i # tg_client
        /\ \A c \in Callers : tc_ref[c] # i
        /\ \A j \in ClientIds :
              (j # tg_client /\ \A c \in Callers : tc_ref[c] # j) => i <= j

\* the call of caller c ends with `result`; inside analyze_channel the
\* caller goes on at `next` instead
Ends(c, result, next) ==
    IF tc_op[c] = "analyze_channel"
    THEN /\ tc_pc' = [tc_pc EXCEPT ![c] = next]
         /\ tc_attempt' = [tc_attempt EXCEPT ![c] = 0]
         /\ tc_starts' = [tc_starts EXCEPT ![c] = 0]
         /\ UNCHANGED tc_result
    ELSE /\ tc_pc' = [tc_pc EXCEPT ![c] = "done"]
         /\ tc_result' = [tc_result EXCEPT ![c] = result]
         /\ UNCHANGED <<tc_attempt, tc_starts>>

\* a caller that is idle or done issues the call `op`
Issue(c, op) ==
    /\ tc_pc[c] \in {"idle", "done"}
    /\ tc_op' = [tc_op EXCEPT ![c] = op]
    /\ tc_prev' = [tc_prev EXCEPT ![c] = <<tc_op[c], tc_result[c]>>]
    /\ tc_starts' = [tc_starts EXCEPT ![c] = 0]
    /\ tc_attempt' = [tc_attempt EXCEPT ![c] = 0]
    /\ tc_ref' = [tc_ref EXCEPT ![c] = 0]
    /\ ac_attempt' = [ac_attempt EXCEPT ![c] = 0]
    /\ ac_outcome' = [ac_outcome EXCEPT ![c] = "return"]
    /\ UNCHANGED <<tg_client, tg_status, tc_result>>

\* telegram_client.py:79  connect() is called
CallConnect(c) ==
    /\ Issue(c, "connect")
    /\ tc_pc' = [tc_pc EXCEPT ![c] = "connect"]
    /\ UNCHANGED <<earlyVars, dlgVars, slVars, dbVars>>

\* telegram_client.py:55  reconnect() is called
CallReconnect(c) ==
    /\ Issue(c, "reconnect")
    /\ tc_pc' = [tc_pc EXCEPT ![c] = "reconnect"]
    /\ UNCHANGED <<earlyVars, dlgVars, slVars, dbVars>>

\* telegram_client.py:90  disconnect() is called
CallDisconnect(c) ==
    /\ Issue(c, "disconnect")
    /\ tc_pc' = [tc_pc EXCEPT ![c] = "disconnect"]
    /\ UNCHANGED <<earlyVars, dlgVars, slVars, dbVars>>

\* services.py:133-141  analyze_channel is called and reaches connect()
AnalyzeChannelCall(c) ==
    /\ Issue(c, "analyze_channel")
    /\ tc_pc' = [tc_pc EXCEPT ![c] = "connect"]
    /\ UNCHANGED <<earlyVars, dlgVars, slVars, dbVars>>

\* telegram_client.py:81-84  connect(): `if not self.client:` a client is
\* put into the slot and its start() is awaited; otherwise nothing is done
ConnectBody(c) ==
    /\ tc_pc[c] = "connect"
    /\ IF tg_client = 0
       THEN /\ tg_client' = NewClient
            /\ tg_status' = [tg_status EXCEPT ![NewClient] = "unstarted"]
            /\ tc_ref' = [tc_ref EXCEPT ![c] = NewClient]
            /\ tc_starts' = [tc_starts EXCEPT ![c] = 1]
            /\ tc_pc' = [tc_pc EXCEPT ![c] = "connect_start"]
            /\ UNCHANGED <<tc_result, tc_attempt>>
       ELSE /\ Ends(c, "returned", "use")
            /\ UNCHANGED <<tg_client, tg_status, tc_ref>>
    /\ UNCHANGED <<tc_op, tc_prev, ac_attempt, ac_outcome>>
    /\ UNCHANGED <<earlyVars, dlgVars, slVars, dbVars>>

\* telegram_client.py:84-85  start() succeeded
ConnectStarted(c) ==
    /\ tc_pc[c] = "connect_start"
    /\ tc_ref' = [tc_ref EXCEPT ![c] = 0]
    /\ tg_status' = Cleaned([tg_status EXCEPT ![tc_ref[c]] = "started"],
                            tg_client, tc_ref')
    /\ Ends(c, "returned", "use")
    /\ UNCHANGED <<tg_client, tc_op, tc_prev, ac_attempt, ac_outcome>>
    /\ UNCHANGED <<earlyVars, dlgVars, slVars, dbVars>>

\* services.py:139-183  what analyze_channel does after its try block: a
\* timeout or connection error before the last attempt is retried; a
\* result, another exception or the last attempt makes it return
AfterTry(c) ==
    IF ac_attempt[c] < ChannelMaxRetries - 1 THEN {"retry", "return"}
    ELSE {"return"}

\* telegram_client.py:86-88  start() raised: connect() logs and re-raises,
\* the slot keeps the client; in analyze_channel the finally block is next
ConnectFailed(c) ==
    /\ tc_pc[c] = "connect_start"
    /\ tc_ref' = [tc_ref EXCEPT ![c] = 0]
    /\ tg_status' = Cleaned(tg_status, tg_client, tc_ref')
    /\ Ends(c, "raised", "disconnect")
    /\ \E outcome \in AfterTry(c) :
          ac_outcome' = [ac_outcome EXCEPT ![c] =
                            IF tc_op[c] = "analyze_channel" THEN outcome
                            ELSE @]
    /\ UNCHANGED <<tg_client, tc_op, tc_prev, ac_attempt>>
    /\ UNCHANGED <<earlyVars, dlgVars, slVars, dbVars>>

\* telegram_client.py:92-94  disconnect(): `if self.client:` its
\* disconnect() is awaited; otherwise the call returns
DisconnectBody(c) ==
    /\ tc_pc[c] = "disconnect"
    /\ IF tg_client # 0
       THEN /\ tc_ref' = [tc_ref EXCEPT ![c] = tg_client]
            /\ tc_pc' = [tc_pc EXCEPT ![c] = "disconnect_wait"]
            /\ UNCHANGED <<tc_result, tc_op, ac_attempt, ac_outcome>>
       ELSE /\ UNCHANGED tc_ref
            /\ IF tc_op[c] = "analyze_channel" /\ ac_outcome[c] = "retry"
               THEN /\ tc_pc' = [tc_pc EXCEPT ![c] = "connect"]
                    /\ ac_attempt' = [ac_attempt EXCEPT ![c] = @ + 1]
                    /\ ac_outcome' = [ac_outcome EXCEPT ![c] = "return"]
                    /\ UNCHANGED <<tc_result, tc_op>>
               ELSE /\ tc_pc' = [tc_pc EXCEPT ![c] = "done"]
                    /\ tc_result' = [tc_result EXCEPT ![c] = "returned"]
                    /\ UNCHANGED <<tc_op, ac_attempt, ac_outcome>>
    /\ UNCHANGED <<tg_client, tg_status, tc_attempt, tc_starts, tc_prev>>
    /\ UNCHANGED <<earlyVars, dlgVars, slVars, dbVars>>

\* telegram_client.py:94-98  the awaited disconnect() ended: on success
\* `self.client = None`, whatever the slot holds by now; an exception is
\* logged and the slot is left alone.  In analyze_channel the loop goes on
\* or the call returns (services.py:189-195)
DisconnectEnded(c) ==
    /\ tc_pc[c] = "disconnect_wait"
    /\ tc_ref' = [tc_ref EXCEPT ![c] = 0]
    /\ \E ok \in BOOLEAN :
          IF ok
          THEN /\ tg_client' = 0
               /\ tg_status' =
                     Cleaned([tg_status EXCEPT ![tc_ref[c]] = "closed"],
                             0, tc_ref')
          ELSE /\ UNCHANGED tg_client
               /\ tg_status' = Cleaned(tg_status, tg_client, tc_ref')
    /\ IF tc_op[c] = "analyze_channel" /\ ac_outcome[c] = "retry"
       THEN /\ tc_pc' = [tc_pc EXCEPT ![c] = "connect"]
            /\ ac_attempt' = [ac_attempt EXCEPT ![c] = @ + 1]
            /\ ac_outcome' = [ac_outcome EXCEPT ![c] = "return"]
            /\ UNCHANGED tc_result
       ELSE /\ tc_pc' = [tc_pc EXCEPT ![c] = "done"]
            /\ tc_result' = [tc_result EXCEPT ![c] = "returned"]
            /\ UNCHANGED <<ac_attempt, ac_outcome>>
    /\ UNCHANGED <<tc_op, tc_attempt, tc_starts, tc_prev>>
    /\ UNCHANGED <<earlyVars, dlgVars, slVars, dbVars>>

\* telegram_client.py:66-67  reconnect(): a new client is put into the slot
\* and its start() is awaited
ReconnectCreates(c) ==
    /\ tg_client' = NewClient
    /\ tc_ref' = [tc_ref EXCEPT ![c] = NewClient]
    /\ tg_status' = Cleaned([tg_status EXCEPT ![NewClient] = "unstarted"],
                            NewClient, tc_ref')
    /\ tc_starts' = [tc_starts EXCEPT ![c] = @ + 1]
    /\ tc_pc' = [tc_pc EXCEPT ![c] = "reconnect_start"]

\* telegram_client.py:57-67  one round of reconnect(): `if self.client:`
\* its disconnect() is awaited first
ReconnectAttempt(c) ==
    /\ tc_pc[c] = "reconnect"
    /\ IF tg_client # 0
       THEN /\ tc_ref' = [tc_ref EXCEPT ![c] = tg_client]
            /\ tc_pc' = [tc_pc EXCEPT ![c] = "reconnect_disconnect"]
            /\ UNCHANGED <<tg_client, tg_status, tc_starts>>
       ELSE ReconnectCreates(c)
    /\ UNCHANGED <<tc_op, tc_attempt, tc_result, tc_prev, ac_attempt,
                   ac_outcome>>
    /\ UNCHANGED <<earlyVars, dlgVars, slVars, dbVars>>

\* telegram_client.py:61-67  the awaited disconnect() ended, with or without
\* an exception (`except: pass`); the slot is set to None and then to a new
\* client
ReconnectDisconnected(c) ==
    /\ tc_pc[c] = "reconnect_disconnect"
    /\ \E ok \in BOOLEAN :
          LET closed == IF ok THEN [tg_status EXCEPT ![tc_ref[c]] = "closed"]
                        ELSE tg_status
              fresh == CHOOSE i \in ClientIds :
                          /\ \A d \in Callers \ {c} : tc_ref[d] # i
                          /\ \A j \in ClientIds :
                                (\A d \in Callers \ {c} : tc_ref[d] # j)
                                    => i <= j
          IN /\ tg_client' = fresh
             /\ tc_ref' = [tc_ref EXCEPT ![c] = fresh]
             /\ tg_status' = Cleaned([closed EXCEPT ![fresh] = "unstarted"],
                                     fresh, tc_ref')
    /\ tc_starts' = [tc_starts EXCEPT ![c] = @ + 1]
    /\ tc_pc' = [tc_pc EXCEPT ![c] = "reconnect_start"]
    /\ UNCHANGED <<tc_op, tc_attempt, tc_result, tc_prev, ac_attempt,
                   ac_outcome>>
    /\ UNCHANGED <<earlyVars, dlgVars, slVars, dbVars>>

\* telegram_client.py:67-70  start() succeeded: reconnect() returns True
ReconnectStarted(c) ==
    /\ tc_pc[c] = "reconnect_start"
    /\ tc_ref' = [tc_ref EXCEPT ![c] = 0]
    /\ tg_status' = Cleaned([tg_status EXCEPT ![tc_ref[c]] = "started"],
                            tg_client, tc_ref')
    /\ Ends(c, "True", "use")
    /\ UNCHANGED <<tg_client, tc_op, tc_prev, ac_attempt, ac_outcome>>
    /\ UNCHANGED <<earlyVars, dlgVars, slVars, dbVars>>

\* telegram_client.py:71-77  start() raised: after a sleep the next round,
\* after the last round reconnect() returns False
ReconnectFailed(c) ==
    /\ tc_pc[c] = "reconnect_start"
    /\ tc_ref' = [tc_ref EXCEPT ![c] = 0]
    /\ tg_status' = Cleaned(tg_status, tg_client, tc_ref')
    /\ IF tc_attempt[c] < MaxReconnectAttempts - 1
       THEN /\ tc_attempt' = [tc_attempt EXCEPT ![c] = @ + 1]
            /\ tc_pc' = [tc_pc EXCEPT ![c] = "reconnect"]
            /\ UNCHANGED <<tc_result, tc_starts>>
       ELSE Ends(c, "False", "use")
    /\ UNCHANGED <<tg_client, tc_op, tc_prev, ac_attempt, ac_outcome>>
    /\ UNCHANGED <<earlyVars, dlgVars, slVars, dbVars>>

\* telegram_client.py:25-53  ensure_connected inside analyze_channel_content:
\* when a check is due and it fails, reconnect() runs
EnsureReconnects(c) ==
    /\ tc_op[c] = "analyze_channel"
    /\ tc_pc[c] = "use"
    /\ tc_pc' = [tc_pc EXCEPT ![c] = "reconnect"]
    /\ tc_attempt' = [tc_attempt EXCEPT ![c] = 0]
    /\ tc_starts' = [tc_starts EXCEPT ![c] = 0]
    /\ UNCHANGED <<tg_client, tg_status, tc_op, tc_ref, tc_result, tc_prev,
                   ac_attempt, ac_outcome>>
    /\ UNCHANGED <<earlyVars, dlgVars, slVars, dbVars>>

\* services.py:146-183  the try block of analyze_channel ends, by a return
\* or by an exception, and the finally block is next
TryEnds(c) ==
    /\ tc_op[c] = "analyze_channel"
    /\ tc_pc[c] = "use"
    /\ \E outcome \in AfterTry(c) :
          ac_outcome' = [ac_outcome EXCEPT ![c] = outcome]
    /\ tc_pc' = [tc_pc EXCEPT ![c] = "disconnect"]
    /\ UNCHANGED <<tg_client, tg_status, tc_op, tc_ref, tc_attempt, tc_starts,
                   tc_result, tc_prev, ac_attempt>>
    /\ UNCHANGED <<earlyVars, dlgVars, slVars, dbVars>>

(***************************************************************************)
(* Part 10.  send_long_message under retry_on_network_errors               *)
(* (bot.py:81-116, 119-176).  The wrapper is the one of Part 1; here the   *)
(* wrapped function runs from one await to the next.                       *)
(***************************************************************************)
\* no call of send_long_message has been made
InitSend ==
    /\ sl_pc = "idle"
    /\ sl_text = "none"
    /\ sl_preview = 0
    /\ sl_document = 0
    /\ sl_message = 0
    /\ sl_files = 0

\* bot.py:91-92  the wrapped function returned: the wrapper returns
SendReturns ==
    /\ calls' = calls + 1
    /\ last_outcome' = Returned
    /\ wpc' = "returned"
    /\ UNCHANGED <<helper, max_retries, retry_delay, attempt, current_delay,
                   last_exception, sleeps, raised>>

\* bot.py:93-108  the wrapped function raised e, or the timeout of the
\* wrapper ended it (TimeoutExc)
SendRaises(e) ==
    /\ calls' = calls + 1
    /\ last_outcome' = e
    /\ OnException(e)
    /\ UNCHANGED <<helper, max_retries, retry_delay, current_delay, sleeps>>

\* what a request to the messaging API can do: it is delivered and
\* returns; it is not delivered and raises; or it is delivered and the
\* answer is lost, so the request raises or runs into the timeout
ApiOutcomes ==
    {[delivered |-> TRUE, exc |-> NoExc]} \cup
    {[delivered |-> d, exc |-> e] : d \in BOOLEAN, e \in FuncExceptions}

\* 1 for a delivered request
Delivered(outcome) == IF outcome.delivered THEN 1 ELSE 0

\* bot.py:124-133, 158-159  one attempt begins: an empty text returns at
\* once, a text of more than 500 characters is written to a temporary file
SendLongBegin ==
    /\ wpc = "call"
    /\ sl_pc = "idle"
    /\ \E text \in (IF sl_text = "none" THEN {"empty", "short", "long"}
                    ELSE {sl_text}) :
          /\ sl_text' = text
          /\ CASE text = "empty" ->
                    /\ SendReturns
                    /\ UNCHANGED <<sl_pc, sl_files>>
               [] text = "short" ->
                    /\ sl_pc' = "message"
                    /\ UNCHANGED <<retryVars, sl_files>>
               [] text = "long" ->
                    /\ sl_pc' = "preview"
                    /\ sl_files' = sl_files + 1
                    /\ UNCHANGED retryVars
    /\ UNCHANGED <<sl_preview, sl_document, sl_message>>
    /\ UNCHANGED <<cfgVars, reqVars, genVars, fnVars, pxVars, chVars, gmVars,
                   selVars, dlgVars, tgVars, dbVars>>

\* bot.py:135-142, 151-153  the preview is sent; an exception leaves
\* through the finally block, which deletes the file
SendPreview ==
    /\ wpc = "call"
    /\ sl_pc = "preview"
    /\ \E outcome \in ApiOutcomes :
          /\ sl_preview' = sl_preview + Delivered(outcome)
          /\ IF outcome.exc = NoExc
             THEN /\ sl_pc' = "document"
                  /\ UNCHANGED <<retryVars, sl_files>>
             ELSE /\ sl_pc' = "idle"
                  /\ sl_files' = sl_files - 1
                  /\ SendRaises(outcome.exc)
    /\ UNCHANGED <<sl_text, sl_document, sl_message>>
    /\ UNCHANGED <<cfgVars, reqVars, genVars, fnVars, pxVars, chVars, gmVars,
                   selVars, dlgVars, tgVars, dbVars>>

\* bot.py:144-154  the document is sent; the finally block deletes the
\* file and the function returns or raises
SendDocument ==
    /\ wpc = "call"
    /\ sl_pc = "document"
    /\ \E outcome \in ApiOutcomes :
          /\ sl_document' = sl_document + Delivered(outcome)
          /\ IF outcome.exc = NoExc THEN SendReturns
             ELSE SendRaises(outcome.exc)
    /\ sl_pc' = "idle"
    /\ sl_files' = sl_files - 1
    /\ UNCHANGED <<sl_text, sl_preview, sl_message>>
    /\ UNCHANGED <<cfgVars, reqVars, genVars, fnVars, pxVars, chVars, gmVars,
                   selVars, dlgVars, tgVars, dbVars>>

\* bot.py:156-165  a short text is sent with the parse mode; `except
\* Exception` goes on to the plain send, the timeout of the wrapper is not
\* an Exception inside the function and ends it
SendMessage ==
    /\ wpc = "call"
    /\ sl_pc = "message"
    /\ \E outcome \in ApiOutcomes :
          /\ sl_message' = sl_message + Delivered(outcome)
          /\ CASE outcome.exc = NoExc ->
                    /\ sl_pc' = "idle"
                    /\ SendReturns
               [] outcome.exc = TimeoutExc ->
                    /\ sl_pc' = "idle"
                    /\ SendRaises(outcome.exc)
               [] OTHER ->
                    /\ sl_pc' = "plain"
                    /\ UNCHANGED retryVars
    /\ UNCHANGED <<sl_text, sl_preview, sl_document, sl_files>>
    /\ UNCHANGED <<cfgVars, reqVars, genVars, fnVars, pxVars, chVars, gmVars,
                   selVars, dlgVars, tgVars, dbVars>>

\* bot.py:166-176  the short text is sent again without a parse mode; an
\* exception of this send is re-raised
SendPlain ==
    /\ wpc = "call"
    /\ sl_pc = "plain"
    /\ \E outcome \in ApiOutcomes :
          /\ sl_message' = sl_message + Delivered(outcome)
          /\ IF outcome.exc = NoExc THEN SendReturns
             ELSE SendRaises(outcome.exc)
    /\ sl_pc' = "idle"
    /\ UNCHANGED <<sl_text, sl_preview, sl_document, sl_files>>
    /\ UNCHANGED <<cfgVars, reqVars, genVars, fnVars, pxVars, chVars, gmVars,
                   selVars, dlgVars, tgVars, dbVars>>

(***************************************************************************)
(* Part 11.  The folders and channels of Database (data_manager.py:10-98). *)
(* Every method opens its own connection; a connection enforces foreign    *)
(* keys only after PRAGMA foreign_keys = ON, or when the SQLite library    *)
(* was built with them on by default.                                      *)
(***************************************************************************)
\* folder rows the model lets the table hold at most
MaxFolders == 2

\* channel rows the model lets the table hold at most
MaxChannels == 2

\* names typed for a new folder
FolderNames == {"news", "work"}

\* data_manager.py:10-51  _init_db on a new file: empty tables; no method
\* issues the PRAGMA, so enforcement is what the library defaults to
InitDatabase(foreign_keys) ==
    /\ db_foreign_keys = foreign_keys
    /\ db_folders = {}
    /\ db_channels = {}
    /\ db_next_folder = 1
    /\ db_next_channel = 1
    /\ db_last = [op |-> "none", arg |-> 0, ok |-> FALSE]

InitLate == InitDialogue /\ InitClient /\ InitSend /\ InitDatabase(FALSE)

\* ids of the rows of a table
Ids(rows) == {row.id : row \in rows}

\* data_manager.py:54-63  create_folder: name is UNIQUE, a second folder of
\* the same name raises IntegrityError and the method returns False
CreateFolder ==
    /\ db_next_folder <= MaxFolders
    /\ \E name \in FolderNames :
          IF \E folder \in db_folders : folder.name = name
          THEN /\ db_last' = [op |-> "create_folder", arg |-> 0, ok |-> FALSE]
               /\ UNCHANGED <<db_folders, db_next_folder>>
          ELSE /\ db_folders' = db_folders \cup
                     {[id |-> db_next_folder, name |-> name]}
               /\ db_next_folder' = db_next_folder + 1
               /\ db_last' = [op |-> "create_folder", arg |-> db_next_folder,
                              ok |-> TRUE]
    /\ UNCHANGED <<db_foreign_keys, db_channels, db_next_channel>>
    /\ UNCHANGED <<earlyVars, dlgVars, tgVars, slVars>>

\* data_manager.py:34  ON DELETE CASCADE: the channel rows left when the
\* folder row goes; the clause acts only on a connection that enforces
\* foreign keys
Cascade(folder_id) ==
    IF db_foreign_keys
    THEN {channel \in db_channels : channel.folder_id # folder_id}
    ELSE db_channels

\* data_manager.py:65-71  delete_folder: rowcount > 0 when the row existed
DeleteFolder ==
    /\ \E folder_id \in 1..MaxFolders :
          /\ db_folders' = {folder \in db_folders : folder.id # folder_id}
          /\ db_channels' = IF folder_id \in Ids(db_folders)
                            THEN Cascade(folder_id) ELSE db_channels
          /\ db_last' = [op |-> "delete_folder", arg |-> folder_id,
                         ok |-> folder_id \in Ids(db_folders)]
    /\ UNCHANGED <<db_foreign_keys, db_next_folder, db_next_channel>>
    /\ UNCHANGED <<earlyVars, dlgVars, tgVars, slVars>>

\* data_manager.py:34, 94-96  the foreign key of channels.folder_id: an
\* insert for a missing folder raises IntegrityError only on a connection
\* that enforces foreign keys
InsertAllowed(folder_id) ==
    db_foreign_keys => folder_id \in Ids(db_folders)

\* data_manager.py:85-98  add_channel, for a folder id that a keyboard has
\* shown (bot.py:688, 1354, 1551): the folder exists or has existed
AddChannel ==
    /\ db_next_channel <= MaxChannels
    /\ \E folder_id \in 1..(db_next_folder - 1) :
          IF InsertAllowed(folder_id)
          THEN /\ db_channels' = db_channels \cup
                     {[id |-> db_next_channel, folder_id |-> folder_id]}
               /\ db_next_channel' = db_next_channel + 1
               /\ db_last' = [op |-> "add_channel", arg |-> folder_id,
                              ok |-> TRUE]
          ELSE /\ db_last' = [op |-> "add_channel", arg |-> folder_id,
                              ok |-> FALSE]
               /\ UNCHANGED <<db_channels, db_next_channel>>
    /\ UNCHANGED <<db_foreign_keys, db_folders, db_next_folder>>
    /\ UNCHANGED <<earlyVars, dlgVars, tgVars, slVars>>

\* data_manager.py:100-106  delete_channel
DeleteChannel ==
    /\ \E channel_id \in 1..MaxChannels :
          /\ db_channels' =
                {channel \in db_channels : channel.id # channel_id}
          /\ db_last' = [op |-> "delete_channel", arg |-> channel_id,
                         ok |-> channel_id \in Ids(db_channels)]
    /\ UNCHANGED <<db_foreign_keys, db_folders, db_next_folder,
                   db_next_channel>>
    /\ UNCHANGED <<earlyVars, dlgVars, tgVars, slVars>>

(***************************************************************************)
(* Specifications.                                                         *)
(***************************************************************************)
\* the retry helpers around an arbitrary operation
InitRetry ==
    /\ \E h \in Helpers, m \in 1..MaxRetriesArg, d \in 1..MaxDelayArg :
          InitRetryWith(h, m, d)
    /\ InitConfig
    /\ InitRequest
    /\ InitFlow("strategy")
    /\ InitFn
    /\ InitProxy
    /\ InitChannel
    /\ InitMessages
    /\ InitSelection
    /\ InitLate

NextRetry == FuncReturns \/ FuncRaises \/ Sleep

SpecRetry == InitRetry /\ [][NextRetry]_vars

\* the elements of a list
Elements(list) == {list[i] : i \in 1..Len(list)}

\* the set `base` with the members of `flipped` flipped
Flip(base, flipped) == (base \ flipped) \cup (flipped \ base)

\* bot.py:1937-1983  toggle_provider_callback, with the presses recorded
SelectionToggle ==
    /\ rq_pc = "idle"
    /\ \E provider \in ToggleNames :
        /\ TogglePressed(provider)
        /\ sel_pressed' = Flip(sel_pressed, {provider})
    /\ UNCHANGED sel_expected
    /\ UNCHANGED <<reqVars, retryVars, genVars, fnVars, pxVars, chVars, gmVars>>
    /\ UNCHANGED lateVars

\* bot.py:1986-2018  save_providers_callback, with the expectation of the
\* user recorded when the save is accepted
SelectionSave ==
    /\ rq_pc = "idle"
    /\ SavePressed
    /\ IF selected_providers # <<>> /\ ProvidersAccepted(NewProviders(selected_providers))
       THEN /\ sel_expected' = Flip(Elements(current_providers), sel_pressed)
            /\ sel_pressed' = {}
       ELSE UNCHANGED selVars
    /\ UNCHANGED <<reqVars, retryVars, genVars, fnVars, pxVars, chVars, gmVars>>
    /\ UNCHANGED lateVars

\* requests of AIManager interleaved with configuration calls
InitReq ==
    /\ InitRetryWith("retry_on_network_errors", DefaultMaxRetries, DefaultRetryDelay)
    /\ InitConfig
    /\ InitRequest
    /\ InitFlow("strategy")
    /\ InitFn
    /\ InitProxy
    /\ InitChannel
    /\ InitMessages
    /\ InitSelection
    /\ InitLate

NextReq == StartRequest \/ StreamCall \/ BufferedCall \/ RequestReturns \/ SetProviders

SpecReq == InitReq /\ [][NextReq]_vars

\* the provider dialogue of the bot (/providers) and direct set_providers
\* calls, in any order
InitCfg == InitReq

NextCfg == SetProviders \/ ToggleProvider \/ SaveProviders

SpecCfg == InitCfg /\ [][NextCfg]_vars

\* the provider dialogue alone: button presses and saves
InitSelectionCalls == InitReq

NextSelectionCalls == SelectionToggle \/ SelectionSave

SpecSelectionCalls == InitSelectionCalls /\ [][NextSelectionCalls]_vars

\* set_model calls (/models), in any order
InitModels == InitReq

NextModels == SetModel

SpecModels == InitModels /\ [][NextModels]_vars

\* the provider configuration and the entry of _make_request, where the
\* provider list is read (ai_utils.py:17-18); the rest of a request leaves
\* the configuration alone
InitCfgReq == InitReq

NextCfgReq == NextCfg \/ StartRequest

SpecCfgReq == InitCfgReq /\ [][NextCfgReq]_vars

\* requests with set_model and set_providers calls running at their
\* suspension points
InitInflight == InitReq

NextInflight ==
    \/ StartRequest \/ StreamCall \/ BufferedCall \/ RequestReturns
    \/ SetProvidersMidRequest \/ SetModelMidRequest

SpecInflight == InitInflight /\ [][NextInflight]_vars

TimelineTokens == {"Etap 1", "NEDELYA 2", "hold meetings", "\n", " "}

TimelineTexts == UNION {[1..n -> TimelineTokens] : n \in 0..MaxTimelineTokens}

\* ai_utils.py:331-345  _extract_timeline on a text
ExtractTimeline ==
    /\ fn_name = "none"
    /\ \E text \in TimelineTexts :
        /\ fn_name' = "_extract_timeline"
        /\ fn_input' = text
        /\ fn_output' = extract_timeline(text)
    /\ UNCHANGED <<retryVars, cfgVars, reqVars, genVars>>
    /\ UNCHANGED pxVars
    /\ UNCHANGED chVars
    /\ UNCHANGED gmVars
    /\ UNCHANGED selVars
    /\ UNCHANGED lateVars

\* ai_utils.py:132-236, 416-457  a prompt builder is called with a context
BuildPrompt ==
    /\ fn_name = "none"
    /\ \E builder \in PromptBuilders, titled \in BOOLEAN, content \in ContextTexts :
        \E slot \in ContextSlots(builder) :
            /\ fn_name' = "build_prompt"
            /\ fn_input' = [builder |-> builder, slot |-> slot, titled |-> titled,
                            content |-> content]
            /\ fn_output' = ContextInPrompt(builder, slot, titled, content)
    /\ UNCHANGED <<retryVars, cfgVars, reqVars, genVars>>
    /\ UNCHANGED pxVars
    /\ UNCHANGED chVars
    /\ UNCHANGED gmVars
    /\ UNCHANGED selVars
    /\ UNCHANGED lateVars

\* ---- the public operations on what a model answers ----
\* texts a model answers with: a strategy, and two answers whose first
\* words are the words the failure texts of _make_request begin with
AnswerTexts ==
    {<<"Strategy", "text">>,
     ErrorPrefix \o <<"klientov", "-", "glavnaya", "problema">>,
     EmptyPrefix \o <<"srazu">>}

\* the operations that test the response with startswith
\* (ai_utils.py:91, 119, 252, 280)
AnsweringOperations ==
    {"analyze_situation", "generate_strategy", "generate_slogans", "refine_strategy"}

\* the strategy handed to refine_strategy
GivenStrategy == <<"Strategy">>

\* ai_utils.py:283  "<could not refine>. <original strategy heading>" + strategy
RefineFailedText == <<"Ne", "udalos", "uluchshit", "strategiyu">>

\* ai_utils.py:267-286  AIManager.refine_strategy on the response
refine_strategy(response, strategy) ==
    IF IsFailureText(response)
    THEN RefineFailedText \o strategy
    ELSE response

\* the value an answering operation returns
AnswerResult(op, response) ==
    IF op = "refine_strategy"
    THEN [dict |-> NoResult, list |-> <<>>,
          text |-> refine_strategy(response, GivenStrategy)]
    ELSE PublicResult(op, response)

\* an operation runs and the streaming call of its _make_request delivers
\* the answer as one chunk
AnswerOperation ==
    /\ fn_name = "none"
    /\ \E op \in AnsweringOperations, answer \in AnswerTexts :
        LET so == [chunks |-> <<[kind |-> "str", words |-> answer]>>, exc |-> NoExc]
        IN  /\ fn_name' = op
            /\ fn_input' = [stream |-> so, buffered |-> NoBuffered,
                            response |-> MakeRequest(so, NoBuffered)]
            /\ fn_output' = AnswerResult(op, MakeRequest(so, NoBuffered))
    /\ UNCHANGED <<retryVars, cfgVars, reqVars, genVars>>
    /\ UNCHANGED pxVars
    /\ UNCHANGED chVars
    /\ UNCHANGED gmVars
    /\ UNCHANGED selVars
    /\ UNCHANGED lateVars

\* one call of a text function of AIManager on any of the explored inputs
InitFnCalls == InitReq

NextFnCalls ==
    \/ PublicOperation \/ GenerateSlogans \/ ExtractSteps \/ ExtractSlogans
    \/ BuildPrompt \/ ExtractTimeline \/ AnswerOperation

SpecFnCalls == InitFnCalls /\ [][NextFnCalls]_vars

\* calls of WebAnalyzer.analyze_channel, one after another
InitChannelCalls == InitReq

NextChannelCalls ==
    \/ AnalyzeChannelStart \/ ChannelAttempt \/ ChannelSleep
    \/ AnalyzeChannelReturns

SpecChannelCalls == InitChannelCalls /\ [][NextChannelCalls]_vars

\* calls of TelegramAnalyzer.get_messages, one after another; the event
\* loop keeps running the call: every await of it ends
InitMessagesCalls == InitReq

NextMessagesCalls ==
    \/ GetMessagesStart \/ FetchChunk \/ FetchFails \/ FetchRaises
    \/ AfterChunk \/ GetMessagesReturns

SpecMessagesCalls ==
    InitMessagesCalls /\ [][NextMessagesCalls]_vars /\ WF_vars(NextMessagesCalls)

\* calls of ensure_working_proxy and get_working_g4f_proxy, one after another
InitProxyCalls == InitReq

NextProxyCalls ==
    \/ EnsureStart \/ GetWorkingStart \/ RecheckCurrent
    \/ ProbeRound \/ RoundsExhausted \/ ProxyCallReturns

SpecProxyCalls == InitProxyCalls /\ [][NextProxyCalls]_vars

\* one user's dialogue with the bot: commands, text messages and presses of
\* the buttons of every keyboard sent so far
InitDialogueCalls == InitReq

NextDialogueCalls ==
    \/ CmdNewStrategy \/ ProcessPointA \/ ProcessPointB \/ ProcessTimeframe
    \/ ProcessTargetAudience \/ AddChannelToStrategy \/ SelectChannel
    \/ ProcessChannelPeriod \/ ProcessChannelKeyword \/ ProcessNoKeyword
    \/ AddNewChannelToStrategy \/ AddToFolderStrategy
    \/ ContinueWithoutChannel \/ CancelChannel \/ AddArticle
    \/ ContinueWithoutArticle \/ CancelArticle \/ ProcessArticleUrl
    \/ CmdAddChannel \/ CreateFolderCallback
    \/ FolderNameEmpty \/ FolderNameCompleted
    \/ AddToFolderCallback \/ ChannelUsernameEmpty
    \/ ChannelUsernameCompleted \/ CancelAddChannel \/ CancelOperation

SpecDialogueCalls == InitDialogueCalls /\ [][NextDialogueCalls]_vars

\* connect, reconnect and disconnect called one after another on one
\* TelegramAnalyzer
InitClientCalls == InitReq

NextClientCalls ==
    \/ CallConnect(1) \/ CallReconnect(1) \/ CallDisconnect(1)
    \/ ConnectBody(1) \/ ConnectStarted(1) \/ ConnectFailed(1)
    \/ DisconnectBody(1) \/ DisconnectEnded(1)
    \/ ReconnectAttempt(1) \/ ReconnectDisconnected(1)
    \/ ReconnectStarted(1) \/ ReconnectFailed(1)

SpecClientCalls == InitClientCalls /\ [][NextClientCalls]_vars

\* analyze_channel calls of two handlers that run concurrently on the
\* shared WebAnalyzer
InitAnalyzeCalls == InitReq

NextAnalyzeCalls ==
    \E c \in Callers :
        \/ AnalyzeChannelCall(c)
        \/ ConnectBody(c) \/ ConnectStarted(c) \/ ConnectFailed(c)
        \/ EnsureReconnects(c) \/ TryEnds(c)
        \/ DisconnectBody(c) \/ DisconnectEnded(c)
        \/ ReconnectAttempt(c) \/ ReconnectDisconnected(c)
        \/ ReconnectStarted(c) \/ ReconnectFailed(c)

SpecAnalyzeCalls == InitAnalyzeCalls /\ [][NextAnalyzeCalls]_vars

\* one call of send_long_message under its wrapper with the default
\* arguments (bot.py:119)
InitSendCalls == InitReq

NextSendCalls ==
    \/ SendLongBegin \/ SendPreview \/ SendDocument \/ SendMessage
    \/ SendPlain \/ Sleep

SpecSendCalls == InitSendCalls /\ [][NextSendCalls]_vars

\* calls of the folder and channel methods of Database, one after another,
\* on a library that enforces foreign keys by default or does not
InitDatabaseCalls ==
    /\ InitRetryWith("retry_on_network_errors", DefaultMaxRetries,
                     DefaultRetryDelay)
    /\ InitConfig
    /\ InitRequest
    /\ InitFlow("strategy")
    /\ InitFn
    /\ InitProxy
    /\ InitChannel
    /\ InitMessages
    /\ InitSelection
    /\ InitDialogue
    /\ InitClient
    /\ InitSend
    /\ \E foreign_keys \in BOOLEAN : InitDatabase(foreign_keys)

NextDatabaseCalls == CreateFolder \/ DeleteFolder \/ AddChannel \/ DeleteChannel

SpecDatabaseCalls == InitDatabaseCalls /\ [][NextDatabaseCalls]_vars

\* one generation flow: generate_strategy under its wrapper with the default
\* arguments (bot.py:873), or generate_slogans_start (one unwrapped run)
InitGen ==
    /\ \E f \in Flows :
          /\ InitFlow(f)
          /\ IF f = "strategy"
             THEN InitRetryWith("retry_on_network_errors", DefaultMaxRetries,
                                DefaultRetryDelay)
             ELSE InitRetryWith("none", 1, DefaultRetryDelay)
    /\ InitConfig
    /\ InitRequest
    /\ InitFn
    /\ InitProxy
    /\ InitChannel
    /\ InitMessages
    /\ InitSelection
    /\ InitLate

NextGen ==
    \/ BodyStart \/ SendProcessingOk \/ SendProcessingRaises
    \/ GenStart \/ GenAnalyze \/ GenGenerate \/ GenCancelled
    \/ UpdNextEdit \/ UpdEditOk \/ UpdEditFails \/ UpdCancelled
    \/ AwaitGenReturns \/ CancelIndicator \/ InspectError \/ InspectSuccess
    \/ EditErrorOk \/ EditErrorRaises
    \/ SendStrategyOk \/ SendStrategyRaises
    \/ SendGenericOk \/ SendGenericRaises
    \/ ExcEditOk \/ ExcEditRaises
    \/ CancelEditOk \/ CancelEditRaises
    \/ AwaitGenCancelled \/ TimeoutFires \/ ExternalCancel \/ ExternalCancelInSleep
    \/ Sleep

SpecGen == InitGen /\ [][NextGen]_vars

(***************************************************************************)
(* Claims about the retry helpers.                                         *)
(***************************************************************************)
Keywords == {"connection", "timeout", "network"}

\* fatal failure as the claims define it: not a timeout, and the message
\* contains none of the three keywords
IsFatalFailure(e) ==
    e.type = "Exception" /\ \A k \in Keywords : ~MsgContains(e.msg, k)

\* the helper is over: it returned the result or raised to its caller
HelperOver == wpc \in {"returned", "raised"}

\* C4: for any sequence of failures, one call of retry_async or of the
\* retry_on_network_errors wrapper invokes the wrapped operation at most
\* max_retries times.
C4_AttemptsBounded == calls <= max_retries

\* C4 witness: a call with the default max_retries that used every attempt.
C4_Witness ==
    /\ max_retries = DefaultMaxRetries
    /\ calls = max_retries
    /\ wpc = "raised"
    /\ ~IsFatalFailure(last_outcome)

\* C5: the k-th sleep (k from 0) lasts retry_delay * 1.5^k, each sleep is
\* longer than the one before, and no sleep follows the final attempt.
C5_BackoffDelays ==
    /\ \A i \in DOMAIN sleeps :
          RatEq(sleeps[i], Rat(retry_delay * Pow(3, i - 1), Pow(2, i - 1)))
    /\ \A i \in DOMAIN sleeps : i > 1 => RatLess(sleeps[i - 1], sleeps[i])
    /\ Len(sleeps) <= max_retries - 1
    /\ (HelperOver => Len(sleeps) = calls - 1)
    /\ (wpc = "sleep" => calls < max_retries)

\* C5 witness: all attempts failed, two sleeps were made, the second 1.5
\* times the first.
C5_Witness ==
    /\ wpc = "raised"
    /\ calls = max_retries
    /\ Len(sleeps) = 2
    /\ RatEq(sleeps[1], Rat(DefaultRetryDelay, 1))
    /\ RatEq(sleeps[2], Rat(3, 1))

\* C7: when an invocation ends in a fatal failure, the helper raises that
\* very exception at once: no further invocation, no backoff sleep.
C7_FatalPropagates ==
    IsFatalFailure(last_outcome) =>
        /\ wpc = "raised"
        /\ raised = last_outcome
        /\ Len(sleeps) = calls - 1

\* C7 witness: a fatal failure on the second attempt, after one retryable
\* failure, with attempts left.
C7_Witness ==
    /\ IsFatalFailure(last_outcome)
    /\ calls = 2
    /\ max_retries = DefaultMaxRetries
    /\ wpc = "raised"

(***************************************************************************)
(* Claims about _make_request (checked under SpecReq).                     *)
(***************************************************************************)
\* the streaming call was made and raised
StreamRaised == rq_stream.exc \in BackendExceptions

\* the streaming call ended normally with a non-empty text
StreamSucceeded ==
    /\ Len(rq_calls) >= 1
    /\ rq_stream.exc = NoExc
    /\ JoinChunks(rq_stream.chunks) # <<>>

\* C2: for every provider set of size >= 1, when the first backend call
\* succeeds with a non-empty text, the request makes exactly one backend
\* call and returns that text.
C2_FirstSuccessOneCall ==
    (StreamSucceeded /\ Len(rq_providers) >= 1) =>
        /\ rq_pc = "done"
        /\ Len(rq_calls) = 1
        /\ rq_result = JoinChunks(rq_stream.chunks)

\* C2 witness: a request over a two-provider set whose first call delivered
\* "Strategy" and "text" in two chunks.
C2_Witness ==
    /\ rq_pc = "done"
    /\ StreamSucceeded
    /\ Len(rq_providers) = 2
    /\ Len(rq_calls) = 1
    /\ rq_result = <<"Strategy", "text">>

ConnectionRefused ==
    [type |-> "Exception", msg |-> <<"Connection", "refused">>, attempts |-> 0]

\* the indicator loop was told to stop or has ended
IndicatorStopped == u_cancel_req \/ u_pc \in {"finished", "cancelled"}

\* positions of the flow at which the outcome of the generation is known
OutcomePoints ==
    {"inspect", "edit_error", "send_strategy", "send_generic", "cancel_edit",
     "exc_edit"}

\* C1: when every backend call of an attempt failed with a connection error,
\* the wrapped generate_strategy does not end before max_retries attempts
\* were made, with a backoff sleep between them.
C1_RetryAfterBackendFailure ==
    (flow = "strategy" /\ wpc = "returned" /\ ~expired /\ ~ext_cancelled
        /\ g_result.has_error /\ g_result.error = ErrorText(ConnectionRefused)) =>
        /\ calls = max_retries
        /\ Len(sleeps) = max_retries - 1

\* C6: the generation fails towards its caller only after all attempts are
\* used, and the error it hands over is not the error of one backend call.
C6_AggregateErrorOnly ==
    (flow = "strategy" /\ t_pc = "done" /\ t_result.has_error) =>
        /\ calls = max_retries
        /\ \A e \in BackendExceptions : t_result.error # ErrorText(e)

\* C8: an attempt of the wrapped generate_strategy in which the timeout
\* fired never ends with a normal return: it is retried or, after the last
\* attempt, raised.
C8_TimeoutNeverReturns == ~(flow = "strategy" /\ expired /\ wpc = "returned")

\* C9: whenever the flow knows the outcome of the generation (result,
\* exception or cancellation), and after the flow is over, the indicator
\* loop has been cancelled or has ended.
C9_IndicatorCancelledFirst ==
    /\ (g_pc \in OutcomePoints => IndicatorStopped)
    /\ ((g_pc \in {"none", "start"} /\ u_pc # "none") => IndicatorStopped)

\* C9 witness: the flow was cancelled from outside while the indicator loop
\* was sleeping between two edits; the loop has its cancel request when the
\* flow handles the cancellation.
C9_Witness ==
    /\ g_pc = "cancel_edit"
    /\ ext_cancelled
    /\ u_pc = "sleep"
    /\ u_cancel_req

\* C10: when the flow is cancelled while the generation task is running,
\* the task is cancelled and never completes, the indicator loop is
\* cancelled when the flow handles the cancellation, and the attempt neither
\* stores a strategy nor sends the result message.
C10_CancelMidFlight ==
    midflight =>
        /\ t_cancel_req
        /\ t_pc # "done"
        /\ (g_pc # "await_gen" => IndicatorStopped)
        /\ ~att_stored
        /\ ~att_delivered
        /\ g_pc \in {"await_gen", "cancel_edit", "none"}

\* C10 witness: an external cancellation during the generation; both tasks
\* ended cancelled, the user saw the cancellation notice, nothing stored.
C10_Witness ==
    /\ midflight
    /\ ext_cancelled
    /\ wpc = "returned"
    /\ t_pc = "cancelled"
    /\ u_pc = "cancelled"
    /\ "cancelled" \in shown
    /\ ~att_stored /\ ~att_delivered

(***************************************************************************)
(* Claims about the configuration of providers (checked under SpecCfg; C11 *)
(* under SpecCfgReq, which adds the start of requests) and of models       *)
(* (SpecModels).                                                           *)
(***************************************************************************)
\* the latest configuration call was set_providers / set_model
LastSetProviders == cfg_call.op = "set_providers"
LastSetModel == cfg_call.op = "set_model"

\* a list with no name of an available provider in any letter case
NothingRecognised(names) ==
    \A i \in 1..Len(names) : Lower(names[i]) \notin AvailableProviders

\* C11: after any sequence of configuration operations (set_providers with
\* arbitrary name lists, the toggle_provider / save_providers dialogue) the
\* current provider list is non-empty, so every request starts with a
\* non-empty provider list; a set_providers call that was rejected left the
\* list it found.
C11_ProvidersNeverEmpty ==
    /\ current_providers # <<>>
    /\ (rq_pc # "idle" => rq_providers # <<>>)
    /\ ((LastSetProviders /\ cfg_ret = "False") =>
            current_providers = cfg_call.before)

\* C11 witness: the list was set to [blackbox], a set_providers call with
\* two unknown names was rejected, and a request has started with [blackbox].
C11_Witness ==
    /\ rq_pc = "stream"
    /\ rq_providers = <<"blackbox">>
    /\ LastSetProviders
    /\ cfg_call.arg = <<"unknown", "unknown">>
    /\ cfg_ret = "False"

\* C12: set_providers with an empty list, or with a list of unrecognised
\* names only, returns False and leaves get_current_providers() as it was
\* before the call (same providers, same order).
C12_RejectedCallKeepsProviders ==
    (LastSetProviders /\ NothingRecognised(cfg_call.arg)) =>
        /\ cfg_ret = "False"
        /\ get_current_providers = cfg_call.before

\* C12 witness: with the providers [blackbox, ddg], set_providers(["unknown"])
\* returned False and the providers are still [blackbox, ddg].
C12_Witness ==
    /\ LastSetProviders
    /\ cfg_call.arg = <<"unknown">>
    /\ cfg_call.before = <<"blackbox", "ddg">>
    /\ cfg_ret = "False"
    /\ get_current_providers = <<"blackbox", "ddg">>

\* C13 as stated: for every name of get_available_models(), set_model(name)
\* followed by get_current_model() returns that name.
C13_SetModelRoundTrip ==
    (LastSetModel /\ cfg_call.arg[1] \in get_available_models) =>
        get_current_model = cfg_call.arg[1]

\* C14: after initialization and any sequence of set_model calls exactly one
\* model is active: current_model is always one of the available model
\* objects; set_model with an unknown name returns False and leaves it,
\* set_model with a known name returns True and has replaced it by the model
\* of that name.
C14_OneModelActive ==
    /\ current_model \in ModelObjects
    /\ (LastSetModel /\ cfg_call.arg[1] \notin AvailableModelNames) =>
            (cfg_ret = "False" /\ current_model = cfg_call.before[1])
    /\ (LastSetModel /\ cfg_call.arg[1] \in AvailableModelNames) =>
            (cfg_ret = "True" /\ current_model = available_models(cfg_call.arg[1]))

\* C14 witness: with claude_3_opus active, set_model("gpt-5") returned False
\* and claude_3_opus is still active.
C14_Witness ==
    /\ LastSetModel
    /\ cfg_call.arg = <<"gpt-5">>
    /\ cfg_call.before = <<"claude_3_opus">>
    /\ cfg_ret = "False"
    /\ current_model = "claude_3_opus"

\* C15 as stated: get_current_providers() never contains a provider twice,
\* whatever list set_providers was called with.
C15_ProvidersUnique ==
    \A i, j \in 1..Len(get_current_providers) :
        get_current_providers[i] = get_current_providers[j] => i = j

(***************************************************************************)
(* Claims about the response of _make_request (checked under SpecReq).     *)
(***************************************************************************)
\* the text _make_request assembled from the backend: the joined chunks of
\* the streaming call, or the text of the buffered call
ResponseAssembled ==
    \/ rq_stream.exc = NoExc
    \/ (StreamRaised /\ rq_buffered.exc = NoExc)

AssembledText ==
    IF rq_stream.exc = NoExc
    THEN JoinChunks(rq_stream.chunks)
    ELSE BufferedText(rq_buffered.value)

\* nothing but whitespace (the empty text included)
IsBlank(text) == \A i \in 1..Len(text) : text[i] = " "

\* C16 as stated: a backend response of whitespace only is treated like an
\* empty response: _make_request returns the empty-response text, never the
\* whitespace.
C16_WhitespaceIsSoftFailure ==
    (rq_pc = "done" /\ ResponseAssembled /\ IsBlank(AssembledText)) =>
        rq_result = EmptyResponseText

\* C18: when the streaming call raises, before or after chunks arrived, the
\* request makes exactly one more call, buffered, with the same model,
\* messages, providers and temperature; the result is decided by the
\* buffered call alone (the chunks received are dropped), and a failure text
\* is returned only if the buffered call raised or came back empty.  No
\* request makes more than two calls or more than one buffered call.
C18_SingleFallback ==
    /\ Len(rq_calls) <= 2
    /\ \A i \in 1..Len(rq_calls) : (~rq_calls[i].stream) => i = 2
    /\ (rq_pc = "fallback") => (Len(rq_calls) = 1 /\ rq_result = <<>>)
    /\ (rq_pc = "done" /\ StreamRaised) =>
        /\ Len(rq_calls) = 2
        /\ rq_calls[1].stream
        /\ rq_calls[2] = [rq_calls[1] EXCEPT !.stream = FALSE]
        /\ IF rq_buffered.exc = NoExc /\ BufferedText(rq_buffered.value) # <<>>
           THEN rq_result = BufferedText(rq_buffered.value)
           ELSE IsFailureText(rq_result)

\* C18 witness: the streaming call delivered the chunk "Strategy" and then
\* raised; the buffered call returned the text "Strategy text", which is the
\* result.
C18_Witness ==
    /\ rq_pc = "done"
    /\ rq_stream.chunks = <<[kind |-> "str", words |-> <<"Strategy">>]>>
    /\ StreamRaised
    /\ rq_buffered = [value |-> [kind |-> "str", words |-> <<"Strategy", "text">>],
                      exc |-> NoExc]
    /\ rq_result = <<"Strategy", "text">>
    /\ Len(rq_calls) = 2

(***************************************************************************)
(* Claims about the text functions (checked under SpecFnCalls).            *)
(***************************************************************************)
\* the request behind a public operation ended in the empty-response path
\* or in the error path of _make_request
RequestFailed(so, bo) ==
    \/ (so.exc = NoExc /\ JoinChunks(so.chunks) = <<>>)
    \/ (so.exc # NoExc /\ bo.exc # NoExc)
    \/ (so.exc # NoExc /\ bo.exc = NoExc /\ BufferedText(bo.value) = <<>>)

\* C17 as stated: whenever _make_request ends in the empty-response or the
\* error path, analyze_situation and generate_strategy report an error,
\* generate_slogans returns no slogan that is the failure text, and
\* generate_search_query and analyze_article_for_channel do not return the
\* failure text as a query or an analysis.
C17_FailureNeverValid ==
    (fn_name \in PublicOperations
        /\ RequestFailed(fn_input.stream, fn_input.buffered)) =>
        CASE fn_name \in {"analyze_situation", "generate_strategy"} ->
                fn_output.dict.has_error
          [] fn_name = "generate_slogans" ->
                \A i \in 1..Len(fn_output.list) :
                    fn_output.list[i] # fn_input.response
          [] OTHER ->
                /\ fn_output.text # fn_input.response
                /\ ~StartsWith(fn_output.text, ErrorPrefix)
                /\ ~StartsWith(fn_output.text, EmptyPrefix)

\* C19: generate_slogans never returns an empty list for a non-empty
\* response, and when slogan extraction leaves no line of a response that
\* is not a failure text, the list holds the whole response as its only
\* element.
C19_SlogansNeverEmpty ==
    (fn_name = "generate_slogans_list" /\ fn_input # <<>>) =>
        /\ fn_output # <<>>
        /\ (~IsFailureText(fn_input) /\ extract_slogans(fn_input) = <<>>) =>
                fn_output = <<fn_input>>

\* C19 witness: the response "# Vote" is a heading line only; extraction
\* leaves nothing and the response comes back as the single slogan.
C19_Witness ==
    /\ fn_name = "generate_slogans_list"
    /\ fn_input = <<"#", " ", "Vote">>
    /\ extract_slogans(fn_input) = <<>>
    /\ fn_output = <<(<<"#", " ", "Vote">>)>>

\* the lines of a text that begin a step: trimmed, they start with 1-9
NumberedLines(lines) ==
    {i \in 1..Len(lines) :
        /\ Strip(lines[i], Whitespace) # <<>>
        /\ Strip(lines[i], Whitespace)[1] \in {"1. First step", "2. Second step"}}

\* the trimmed lines a..b joined by single spaces
RECURSIVE JoinTrimmed(_, _, _)
JoinTrimmed(lines, a, b) ==
    IF a > b THEN <<>>
    ELSE IF a = b THEN Strip(lines[a], Whitespace)
    ELSE Strip(lines[a], Whitespace) \o <<" ">> \o JoinTrimmed(lines, a + 1, b)

\* the step that begins at numbered line i: that line and every line up to
\* the next numbered line, trimmed as a whole
StepFrom(lines, i) ==
    LET later == {j \in NumberedLines(lines) : j > i}
        last == IF later = {} THEN Len(lines)
                ELSE (CHOOSE j \in later : \A k \in later : j <= k) - 1
    IN Strip(JoinTrimmed(lines, i, last), Whitespace)

ExampleSteps ==
    <<"1. First step", "\n", "continued detail", "\n", "2. Second step">>

\* C20: _extract_steps returns one step per line whose trimmed text starts
\* with a digit 1-9, in order; a step is its numbered line followed by every
\* line up to the next numbered line, each trimmed and joined by a single
\* space (the step is trimmed as a whole); lines before the first numbered
\* line are in no step.  The lines "1. First step", "continued detail",
\* "2. Second step" give exactly ["1. First step continued detail",
\* "2. Second step"].
C20_StepExtraction ==
    (fn_name = "_extract_steps") =>
        LET lines == Split(fn_input)
            numbered == NumberedLines(lines)
        IN /\ Len(fn_output) = Cardinality(numbered)
           /\ \A i \in numbered :
                fn_output[Cardinality({j \in numbered : j <= i})] = StepFrom(lines, i)
           /\ (fn_input = ExampleSteps) =>
                fn_output = << <<"1. First step", " ", "continued detail">>,
                               <<"2. Second step">> >>

\* C20 witness: the three lines of the example have been processed.
C20_Witness ==
    /\ fn_name = "_extract_steps"
    /\ fn_input = ExampleSteps
    /\ Len(fn_output) = 2
    /\ fn_output[1] = <<"1. First step", " ", "continued detail">>

\* the lines of a text that are not blank
NonBlankLines(lines) ==
    {i \in 1..Len(lines) : Strip(lines[i], Whitespace) # <<>>}

\* C21 as stated: in every implementation of _extract_slogans each
\* non-empty line of the response yields one slogan, blank lines yield
\* none, and the lines "1. Vote now", "- Act today", "" give exactly
\* ["Vote now", "Act today"].
C21_SloganExtraction ==
    (fn_name = "_extract_slogans") =>
        /\ Len(fn_output) = Cardinality(NonBlankLines(Split(fn_input.text)))
        /\ (fn_input.text = SloganExample) =>
                fn_output = << <<"Vote now">>, <<"Act today">> >>


(***************************************************************************)
(* C22  Proxy acquisition never raises: get_working_g4f_proxy and          *)
(* ensure_working_proxy end by returning, whatever the list sources and    *)
(* the probes do; a call makes at most max_retries probing rounds, and a   *)
(* call of get_working_g4f_proxy whose rounds all failed, or a call of     *)
(* ensure_working_proxy that found no proxy, returns None.                 *)
(***************************************************************************)
C22_AcquisitionNeverRaises ==
    /\ px_pc # "raised"
    /\ px_attempt <= ProxyMaxRetries
    /\ (px_pc = "returned" /\ px_attempt = ProxyMaxRetries) => px_ret = "None"
    /\ (px_pc = "returned" /\ px_ret = "None") => px_attempt = ProxyMaxRetries

\* a call that met an empty pool in every round returned None
C22_Witness ==
    /\ px_pc = "returned"
    /\ px_ret = "None"
    /\ proxy_list = {}
    /\ px_attempt = ProxyMaxRetries

(***************************************************************************)
(* C27  A proxy returned by ensure_working_proxy answered a g4f probe in   *)
(* that same call and is the stored current proxy; whenever a call has     *)
(* changed the current-proxy slot, the slot holds None or a proxy that     *)
(* answered a g4f probe in that call.                                      *)
(***************************************************************************)
C27_HandedOutProxyVerified ==
    /\ (px_pc = "returned" /\ px_entry = "ensure_working_proxy"
            /\ px_ret # "None")
        => (px_ret \in px_checked /\ px_ret = current_proxy)
    /\ (px_pc # "idle" /\ current_proxy # px_before)
        => (current_proxy = "None" \/ current_proxy \in px_checked)

\* ensure_working_proxy replaced a stored proxy that failed its re-check by
\* another one
C27_Witness ==
    /\ px_pc = "returned"
    /\ px_entry = "ensure_working_proxy"
    /\ px_before # "None"
    /\ px_ret \notin {"None", px_before}
    /\ current_proxy = px_ret

\* `part in text` on texts
Contains(text, part) ==
    \E i \in 1..(Len(text) - Len(part) + 1) :
        SubSeq(text, i, i + Len(part) - 1) = part

\* the texts of the exceptions the backend raised in the explored requests
BackendErrorTexts ==
    {bo.exc.msg : bo \in {o \in FlowBufferedOutcomes : o.exc # NoExc}}

(***************************************************************************)
(* C23  When a generation failed because the backend raised, the message   *)
(* the flow shows to the user does not contain the text of the backend's   *)
(* exception.                                                              *)
(***************************************************************************)
C23_NoRawErrorShown ==
    (/\ flow = "strategy"
     /\ wpc = "returned"
     /\ g_result.has_error
     /\ "error_result" \in shown)
    => \A raw \in BackendErrorTexts :
          ~Contains(ErrorResultMessage(g_result), raw)

(***************************************************************************)
(* C24  A flow (generate_strategy, generate_slogans_start) that was        *)
(* cancelled from outside never returns normally: the cancellation         *)
(* reaches its caller.                                                     *)
(***************************************************************************)
C24_CancellationPropagated == ~(ext_cancelled /\ wpc = "returned")

(***************************************************************************)
(* C25  While the generation task is running and nobody has asked the      *)
(* indicator loop to stop, the loop has not ended.                         *)
(***************************************************************************)
C25_IndicatorRunsUntilCancelled ==
    (t_pc \in {"created", "analyze", "generate"} /\ ~u_cancel_req)
        => u_pc # "finished"

\* the lists set_providers can store, and the list of the constructor
CompleteProviderLists ==
    {DefaultProviders} \cup {NewProviders(names) : names \in InflightNameLists}

(***************************************************************************)
(* C26  Every backend call of a request, the buffered fallback included,   *)
(* is made with the model and the provider list that were current when     *)
(* the request began, whatever set_model and set_providers calls run       *)
(* while the request is suspended; the provider list of the manager and    *)
(* the one the request holds are always a complete list: the initial one   *)
(* or the whole result of one set_providers call.                          *)
(***************************************************************************)
C26_RequestKeepsConfiguration ==
    /\ \A i \in 1..Len(rq_calls) :
          /\ rq_calls[i].model = rq_model
          /\ rq_calls[i].providers = rq_providers
    /\ current_providers \in CompleteProviderLists
    /\ rq_pc # "idle" => rq_providers \in CompleteProviderLists

\* the fallback call was made after both the model and the provider list
\* had been changed
C26_Witness ==
    /\ rq_pc = "done"
    /\ Len(rq_calls) = 2
    /\ current_model # rq_model
    /\ current_providers # rq_providers
    /\ rq_calls[2].providers = rq_providers
    /\ rq_calls[2].model = rq_model

(***************************************************************************)
(* C28  analyze_channel makes at most 5 attempts; a timed-out attempt that *)
(* is not the last one is followed by a sleep and another attempt; the     *)
(* i-th sleep of a call lasts 2.0 * 1.5^(i-1) seconds, there is one sleep  *)
(* between two attempts and none after the last attempt; a call whose      *)
(* attempts all timed out returns an error-status dictionary; every call   *)
(* ends by returning a dictionary with status "success" or "error",        *)
(* whatever the attempts met.                                              *)
(***************************************************************************)
C28_ChannelAnalysisRetries ==
    /\ ch_pc # "raised"
    /\ Len(ch_outcomes) <= ChannelMaxRetries
    /\ \A i \in DOMAIN ch_sleeps :
          RatEq(ch_sleeps[i], Rat(ChannelRetryDelay * Pow(3, i - 1), Pow(2, i - 1)))
    /\ ch_pc \in {"attempt", "returned"} =>
          Len(ch_sleeps) = ch_attempt
    /\ ch_pc = "returned" => Len(ch_sleeps) = Len(ch_outcomes) - 1
    /\ (ch_pc = "sleep" /\ ch_outcomes[Len(ch_outcomes)] = "timeout") =>
          Len(ch_outcomes) < ChannelMaxRetries
    /\ ch_pc = "returned" =>
          \A i \in DOMAIN ch_outcomes :
              (ch_outcomes[i] = "timeout" /\ i < ChannelMaxRetries) =>
                  i < Len(ch_outcomes)
    /\ ch_pc = "returned" => ch_result.status \in {"success", "error"}
    /\ (ch_pc = "returned" /\ Len(ch_outcomes) = ChannelMaxRetries
            /\ ch_outcomes[ChannelMaxRetries] = "timeout")
        => ch_result = [status |-> "error", message |-> "timeout"]

\* five attempts timed out: four sleeps of 2, 3, 4.5 and 6.75 seconds, and
\* an error result after the fifth attempt
C28_Witness ==
    /\ ch_pc = "returned"
    /\ ch_outcomes = <<"timeout", "timeout", "timeout", "timeout", "timeout">>
    /\ Len(ch_sleeps) = 4
    /\ RatEq(ch_sleeps[4], Rat(27, 4))
    /\ ch_result.status = "error"

(***************************************************************************)
(* C29  In every prompt builder, a context of at most 2000 characters      *)
(* stands in the prompt as it is, and a longer one as its first 2000       *)
(* characters followed by "...".                                           *)
(***************************************************************************)
C29_ContextCutTo2000 ==
    (/\ fn_name = "build_prompt"
     /\ Interpolated(fn_input.builder, fn_input.slot, fn_input.titled,
                     fn_input.content))
    => fn_output = IF TextLen(fn_input.content) <= 2000
                   THEN fn_input.content
                   ELSE Cut(fn_input.content, 2000) \o <<"...">>

\* the lines of a text that hold a period keyword
KeywordLines(lines) ==
    {i \in 1..Len(lines) : \E k \in 1..Len(lines[i]) : TokenHasKeyword(lines[i][k])}

\* the last line of the period that begins at line i
PeriodEnd(lines, i) ==
    IF \E j \in KeywordLines(lines) : j > i
    THEN (CHOOSE j \in KeywordLines(lines) :
            j > i /\ \A k \in KeywordLines(lines) : k > i => j <= k) - 1
    ELSE Len(lines)

\* the lines from..to, trimmed, in order
RECURSIVE TrimmedLines(_, _, _)
TrimmedLines(lines, from, to) ==
    IF from > to THEN <<>>
    ELSE <<Strip(lines[from], Whitespace)>> \o TrimmedLines(lines, from + 1, to)

\* a sequence without its empty entries
RECURSIVE WithoutEmpty(_)
WithoutEmpty(seq) ==
    IF seq = <<>> THEN <<>>
    ELSE IF Head(seq) = <<>> THEN WithoutEmpty(Tail(seq))
         ELSE <<Head(seq)>> \o WithoutEmpty(Tail(seq))

\* the periods of the timeline are the keyword lines, trimmed and in order
PeriodsAreKeywordLines ==
    LET lines == Split(fn_input)
        keyword == KeywordLines(lines)
    IN /\ Len(fn_output) = Cardinality(keyword)
       /\ \A i \in keyword :
            fn_output[Cardinality({j \in keyword : j <= i})].period =
                Strip(lines[i], Whitespace)

(***************************************************************************)
(* C30 as stated: the timeline has one period per keyword line, and every  *)
(* line after a keyword line, up to the next keyword line, is an entry of  *)
(* that period's action list.                                              *)
(***************************************************************************)
C30_EveryLineIsAction ==
    (fn_name = "_extract_timeline") =>
        /\ PeriodsAreKeywordLines
        /\ LET lines == Split(fn_input)
               keyword == KeywordLines(lines)
           IN \A i \in keyword :
                fn_output[Cardinality({j \in keyword : j <= i})].actions =
                    TrimmedLines(lines, i + 1, PeriodEnd(lines, i))

(***************************************************************************)
(* C30 amended: the timeline has one period per keyword line, named by    *)
(* the trimmed line; the action list of a period holds, trimmed and in     *)
(* order, the lines after its keyword line up to the next keyword line     *)
(* that are not blank; lines before the first keyword line are in no       *)
(* period, and a text without keyword line gives the empty timeline.       *)
(***************************************************************************)
C30_TimelineExtraction ==
    (fn_name = "_extract_timeline") =>
        /\ PeriodsAreKeywordLines
        /\ LET lines == Split(fn_input)
               keyword == KeywordLines(lines)
           IN /\ \A i \in keyword :
                    fn_output[Cardinality({j \in keyword : j <= i})].actions =
                        WithoutEmpty(TrimmedLines(lines, i + 1, PeriodEnd(lines, i)))
              /\ keyword = {} => fn_output = <<>>

\* two periods; a line before the first keyword line is dropped, the first
\* period has one action, the second one none
C30_Witness ==
    /\ fn_name = "_extract_timeline"
    /\ fn_input = <<"hold meetings", "\n", "Etap 1", "\n", "hold meetings">>
    /\ fn_output = << [period |-> <<"Etap 1">>,
                       actions |-> << <<"hold meetings">> >>] >>

(***************************************************************************)
(* C31  Every call of get_messages returns: a call that is fetching        *)
(* reaches its return.                                                     *)
(***************************************************************************)
C31_GetMessagesTerminates == (gm_pc = "fetch") ~> (gm_pc = "returned")

(***************************************************************************)
(* C32  After an accepted save of the provider dialogue the current        *)
(* providers are the ones that were current before, with exactly the       *)
(* providers flipped whose button was pressed an odd number of times.      *)
(***************************************************************************)
C32_SelectionAccumulates ==
    sel_expected # {"none"} => Elements(current_providers) = sel_expected

(***************************************************************************)
(* C33  Every button of the keyboards a handler has just sent has a        *)
(* registered callback handler whose state filter accepts the state the    *)
(* dialogue is in after that handler.                                      *)
(***************************************************************************)
C33_ShownButtonsHandled ==
    \A button \in dlg_shown : dlg_state \in AcceptingStates(button)

(***************************************************************************)
(* C34  When the add-channel or the create-folder dialogue was entered     *)
(* from a state of the strategy dialogue, the step that completes it       *)
(* keeps every strategy input collected so far and leaves the dialogue in  *)
(* a state of the strategy dialogue.                                       *)
(***************************************************************************)
C34_StrategySurvivesSubDialogue ==
    [][ ((ChannelUsernameCompleted \/ FolderNameCompleted)
            /\ dlg_origin \in StrategyStates)
        => /\ (dlg_data \cap StrategyInputs) \subseteq dlg_data'
           /\ dlg_state' \in StrategyStates ]_vars

(***************************************************************************)
(* C35  The background generation task is only ever started on data that   *)
(* contains point_a, point_b, timeframe and target_audience.               *)
(***************************************************************************)
C35_GenerationHasInputs ==
    dlg_task_data # {"none"} => StrategyInputs \subseteq dlg_task_data

(***************************************************************************)
(* C36  While an analyze_channel call is inside its try block, between     *)
(* two requests on self.client, the slot holds a client that has not been  *)
(* closed: the finally block of the other call does not take it away.      *)
(***************************************************************************)
C36_ClientStaysOpen ==
    \A c \in Callers :
        (tc_op[c] = "analyze_channel" /\ tc_pc[c] = "use")
            => (tg_client # 0 /\ tg_status[tg_client] # "closed")

(***************************************************************************)
(* C39  Between calls the client slot is None or holds a client whose      *)
(* start() succeeded; a connect() right after a failed connect() or after  *)
(* a reconnect() that returned False calls start(); reconnect() calls      *)
(* start() at most three times and ends by returning True or False.        *)
(***************************************************************************)
C39_SlotHoldsStartedClient ==
    /\ (tc_pc[1] \in {"idle", "done"} /\ tg_client # 0)
          => tg_status[tg_client] = "started"
    /\ (/\ tc_op[1] = "connect"
        /\ tc_pc[1] = "done"
        /\ tc_prev[1] \in {<<"connect", "raised">>, <<"reconnect", "False">>})
          => tc_starts[1] = 1
    /\ tc_op[1] = "reconnect"
          => /\ tc_starts[1] <= MaxReconnectAttempts
             /\ tc_pc[1] = "done" => tc_result[1] \in {"True", "False"}

(***************************************************************************)
(* C37  One call of send_long_message delivers the preview, the document   *)
(* and the whole message at most once each, and when the call is over no   *)
(* temporary file is left.                                                 *)
(***************************************************************************)
C37_PartsDeliveredOnce ==
    /\ sl_preview <= 1
    /\ sl_document <= 1
    /\ sl_message <= 1
    /\ (sl_text # "none" /\ wpc \in {"returned", "raised"}) => sl_files = 0

(***************************************************************************)
(* C40  After a successful delete_folder(f) no channel row has folder_id   *)
(* f, and at all times the folder_id of every channel row is the id of a   *)
(* folder row.                                                             *)
(***************************************************************************)
C40_ChannelsFollowFolders ==
    /\ (db_last.op = "delete_folder" /\ db_last.ok)
          => \A channel \in db_channels : channel.folder_id # db_last.arg
    /\ \A channel \in db_channels : channel.folder_id \in Ids(db_folders)

(***************************************************************************)
(* Claim about the outcome of a request (checked under SpecFnCalls).       *)
(***************************************************************************)
\* the operation reports success and returns content made of the response
ReportsSuccess(op, output, response) ==
    CASE op = "analyze_situation" ->
            ~output.dict.has_error /\ output.dict.analysis = response
      [] op = "generate_strategy" ->
            ~output.dict.has_error /\ output.dict.strategy = response
      [] op = "generate_slogans" ->
            output.list = SlogansOrResponse(extract_slogans(response), response)
      [] OTHER ->
            output.text = response

\* the operation reports failure
ReportsFailure(op, output) ==
    CASE op \in {"analyze_situation", "generate_strategy"} -> output.dict.has_error
      [] op = "generate_slogans" -> output.list = <<SlogansFailedText>>
      [] OTHER -> StartsWith(output.text, RefineFailedText)

\* C38: whenever the backend returns a non-empty response, analyze_situation,
\* generate_strategy, generate_slogans and refine_strategy report success
\* and return content derived from that response, whatever its text is;
\* they report failure only when the backend call failed or returned
\* nothing.
C38_AnswerIsSuccess ==
    (fn_name \in AnsweringOperations) =>
        IF RequestFailed(fn_input.stream, fn_input.buffered)
        THEN ReportsFailure(fn_name, fn_output)
        ELSE /\ ReportsSuccess(fn_name, fn_output, fn_input.response)
             /\ ~ReportsFailure(fn_name, fn_output)

\* the part of C38 that holds: an answer that does not begin with the
\* words of a failure text is reported as success
C38_PlainAnswerIsSuccess ==
    (fn_name \in AnsweringOperations
        /\ ~RequestFailed(fn_input.stream, fn_input.buffered)
        /\ ~StartsWith(fn_input.response, ErrorPrefix)
        /\ ~StartsWith(fn_input.response, EmptyPrefix)) =>
        /\ ReportsSuccess(fn_name, fn_output, fn_input.response)
        /\ ~ReportsFailure(fn_name, fn_output)

\* the case that refutes C38: a model's answer that begins with the words
\* of the error text comes back from analyze_situation as an error
C38_AnswerReportedAsError ==
    /\ fn_name = "analyze_situation"
    /\ fn_input.stream.exc = NoExc
    /\ StartsWith(JoinChunks(fn_input.stream.chunks), ErrorPrefix)
    /\ fn_output.dict.has_error


====
